---------------------------- MODULE Spec2Model ----------------------------
(***************************************************************************)
(* Exact-arithmetic Gaussian elimination (ref, REF.py) and back            *)
(* substitution (back_substitution, Back subtracktion.py).                 *)
(*                                                                         *)
(* Scalars are exact rationals <<num, den>> in lowest terms with den > 0,  *)
(* as sympy.Rational keeps them.  Matrices are records                     *)
(* [rows, cols, e] with 0-based entries e[r][c], as sympy.Matrix.          *)
(* Solution entries are affine expressions in the parameters t0, t1, ...   *)
(* kept as coefficient vectors: index 0 is the constant, index k+1 the     *)
(* coefficient of t_k.                                                     *)
(***************************************************************************)
EXTENDS Integers, Sequences, FiniteSets, TLC

\* ------------------------------------------------------------------ bounds

\* Largest number of cells (rows * cols) of a caller's matrix.
MaxCells == 6

\* The integers a caller's matrix entry is drawn from.
Vals == {0, 1, 2}

\* Values tried for each unknown when a candidate vector is substituted.
CandVals == {0, 1}

\* ------------------------------------------------- sympy.Rational arithmetic

Abs(a) == IF a < 0 THEN -a ELSE a

RECURSIVE GCD(_, _)
GCD(a, b) == IF b = 0 THEN a ELSE GCD(b, a % b)

\* A fraction num/den (den # 0) in lowest terms with a positive denominator.
Norm(num, den) ==
    LET g == GCD(Abs(num), Abs(den))
        s == IF den < 0 THEN -1 ELSE 1
    IN  <<(s * num) \div g, (s * den) \div g>>

Rat(v) == <<v, 1>>

RZero == Rat(0)

\* sympy's result of a division by zero (zoo); no arithmetic is defined on it.
Zoo == <<1, 0>>

RAdd(p, q) == Norm(p[1] * q[2] + q[1] * p[2], p[2] * q[2])

RNeg(p) == <<-p[1], p[2]>>

RSub(p, q) == RAdd(p, RNeg(q))

RMul(p, q) == Norm(p[1] * q[1], p[2] * q[2])

RDiv(p, q) == IF q[1] = 0 THEN Zoo ELSE Norm(p[1] * q[2], p[2] * q[1])

\* -------------------------------------------------------------- sympy.Matrix

Matrix(m, n, f) == [rows |-> m, cols |-> n, e |-> f]

RowIdx(X) == 0 .. X.rows - 1

ColIdx(X) == 0 .. X.cols - 1

\* Matrix.row_swap(a, b)
row_swap(X, a, b) ==
    [X EXCEPT !.e = [rr \in RowIdx(X) |->
                        IF rr = a THEN X.e[b] ELSE IF rr = b THEN X.e[a] ELSE X.e[rr]]]

\* row_op whose lambda reads the row being changed instead of the pivot row.
row_op_sub_OwnRow(X, rr, factor, src) ==
    [X EXCEPT !.e[rr] = [j \in ColIdx(X) |->
                            RSub(X.e[rr][j], RMul(factor, X.e[rr][j]))]]

\* Matrix.row_op(rr, f) with f(val, j) = val - factor * X[src, j]
row_op_sub(X, rr, factor, src) ==
    [X EXCEPT !.e[rr] = [j \in ColIdx(X) |->
                            RSub(X.e[rr][j], RMul(factor, X.e[src][j]))]]


\* ------------------------------------------------------------------- state

VARIABLES
    A,                  \* the caller's matrix
    pc,                 \* position in the running call
    \* ref (REF.py)
    M, pivot_cols, pivot_row, col, pivot, pivot_val, r,
    M_is_A,             \* M names the caller's matrix object, not a copy of it
    E, pivots,          \* the caller's  E, pivots = ref(A)
    \* back_substitution (Back subtracktion.py)
    Ab, n_vars, pivot_col_for_row, pivot_set, free_cols, x, i,
    raised,             \* the exception that left back_substitution, if any
    sol, sol_free,      \* the caller's  sol, free_cols = back_substitution(Ab, n_vars)
    earlier,            \* what the first completed call was given and gave back
    \* main, read_int, read_augmented_matrix (Back subtracktion.py)
    entered,            \* the line the last input() returned
    main_n_vars, main_m,
    read_rows,          \* read_augmented_matrix's list  rows  of parsed rows
    printed             \* what has been printed since the last line was read

refVars == <<M, M_is_A, pivot_cols, pivot_row, col, pivot, pivot_val, r, E, pivots>>

bsVars == <<Ab, n_vars, pivot_col_for_row, pivot_set, free_cols, x, i, raised, sol, sol_free>>

ioVars == <<entered, main_n_vars, main_m, read_rows, printed>>

vars == <<A, pc, refVars, bsVars, earlier, ioVars>>

\* Python's None for an index, and a matrix not yet bound.
None == -1

NoMatrix == Matrix(0, 0, <<>>)

NoException == [type |-> "", msg |-> ""]

\* No call has completed yet.
NoCall ==
    [call |-> "none", arg |-> NoMatrix, nv |-> 0, E |-> NoMatrix, pivots |-> <<>>,
     raised |-> NoException, sol |-> <<>>, sol_free |-> <<>>]

\* The shapes m x n a caller's matrix may have.
Shapes == {s \in (1 .. MaxCells) \X (1 .. MaxCells) : s[1] * s[2] <= MaxCells}

\* The entries of an m x n matrix over Vals.
Entries(m, n) == [0 .. m - 1 -> [0 .. n - 1 -> {Rat(v) : v \in Vals}]]

\* A matrix given by its rows of integers.
FromRows(rows) ==
    Matrix(Len(rows), Len(rows[1]),
           [q \in 0 .. Len(rows) - 1 |->
               [j \in 0 .. Len(rows[1]) - 1 |-> Rat(rows[q + 1][j + 1])]])

\* The system 2 x0 = 4, 3 x1 = 9 as [A|b].
DiagonalSystem == FromRows(<<<<2, 0, 4>>, <<0, 3, 9>>>>)

\* Two equations in three unknowns, x0 + x1 + x2 = 3 and 2 x2 = 4, in echelon
\* form with the free column 1 between the pivot columns 0 and 2.
FreeBetweenPivots == FromRows(<<<<1, 1, 1, 3>>, <<0, 0, 2, 4>>>>)

\* Matrices beyond the bounded shapes and Vals that a caller may hold as well.
Fixtures == {DiagonalSystem, FreeBetweenPivots}

\* The caller holds any matrix of a bounded shape over Vals, or one of the
\* fixtures; nothing has run.
Init ==
    /\ \/ \E s \in Shapes : \E f \in Entries(s[1], s[2]) : A = Matrix(s[1], s[2], f)
       \/ A \in Fixtures
    /\ pc = "idle"
    /\ M = NoMatrix
    /\ M_is_A = FALSE
    /\ pivot_cols = <<>>
    /\ pivot_row = 0
    /\ col = 0
    /\ pivot = None
    /\ pivot_val = RZero
    /\ r = 0
    /\ E = NoMatrix
    /\ pivots = <<>>
    /\ Ab = NoMatrix
    /\ n_vars = 0
    /\ pivot_col_for_row = <<>>
    /\ pivot_set = {}
    /\ free_cols = <<>>
    /\ x = <<>>
    /\ i = 0
    /\ raised = NoException
    /\ sol = <<>>
    /\ sol_free = <<>>
    /\ earlier = NoCall
    /\ entered = <<>>
    /\ main_n_vars = 0
    /\ main_m = 0
    /\ read_rows = <<>>
    /\ printed = {}

\* --------------------------------------------------------------------- ref

\* The pivot search with the test of line 91 inverted: the first row at or
\* below pivot_row whose entry is zero.
FindPivot_PicksZero(X, from, c) ==
    LET hits == {rr \in from .. X.rows - 1 : X.e[rr][c] = RZero}
    IN  IF hits = {} THEN None
        ELSE CHOOSE rr \in hits : \A q \in hits : rr <= q

\* The pivot search without the break of line 93: the last row at or below
\* pivot_row with a nonzero entry.
FindPivot_LastHit(X, from, c) ==
    LET hits == {rr \in from .. X.rows - 1 : X.e[rr][c] # RZero}
    IN  IF hits = {} THEN None
        ELSE CHOOSE rr \in hits : \A q \in hits : rr >= q

\* The pivot search starting at row 0 instead of pivot_row.
FindPivot_FromTop(X, from, c) ==
    LET hits == {rr \in 0 .. X.rows - 1 : X.e[rr][c] # RZero}
    IN  IF hits = {} THEN None
        ELSE CHOOSE rr \in hits : \A q \in hits : rr <= q

\* Lines 90-93: the lowest row at or below pivot_row with a nonzero entry in
\* column c, or None.
FindPivot(X, from, c) ==
    LET hits == {rr \in from .. X.rows - 1 : X.e[rr][c] # RZero}
    IN  IF hits = {} THEN None
        ELSE CHOOSE rr \in hits : \A q \in hits : rr <= q

\* ref with pivot_cols shared between calls (as a module-level list, or a
\* mutable default argument, would be) instead of bound anew at line 81.
RefCall_SharedPivotCols ==
    /\ pc = "idle"
    /\ M' = A
    /\ pivot_row' = 0
    /\ col' = 0
    /\ M_is_A' = FALSE
    /\ pc' = "ref_for"
    /\ UNCHANGED <<A, earlier, ioVars, pivot_cols, pivot, pivot_val, r, E, pivots, bsVars>>

\* Line 79 without the copy:  M = A  names the caller's matrix object.
RefCall_NoCopy ==
    /\ pc = "idle"
    /\ M' = A
    /\ pivot_cols' = <<>>
    /\ pivot_row' = 0
    /\ col' = 0
    /\ M_is_A' = TRUE
    /\ pc' = "ref_for"
    /\ UNCHANGED <<A, earlier, ioVars, pivot, pivot_val, r, E, pivots, bsVars>>

\* E, pivots = ref(A): lines 79-83. M is a copy, a matrix object of its own.
RefCall ==
    /\ pc = "idle"
    /\ M' = A
    /\ pivot_cols' = <<>>
    /\ pivot_row' = 0
    /\ col' = 0
    /\ M_is_A' = FALSE
    /\ pc' = "ref_for"
    /\ UNCHANGED <<A, earlier, ioVars, pivot, pivot_val, r, E, pivots, bsVars>>

\* Lines 94-95 going round the loop without moving to the next column.
RefSkipColumn_StaysOnColumn ==
    /\ pc = "ref_for"
    /\ col < M.cols
    /\ pivot_row < M.rows
    /\ FindPivot(M, pivot_row, col) = None
    /\ pivot' = None
    /\ UNCHANGED <<A, M_is_A, earlier, ioVars, pc, M, pivot_cols, pivot_row, col, pivot_val, r, E, pivots, bsVars>>

\* Lines 84-95 when no row at or below pivot_row is nonzero in col: continue.
RefSkipColumn ==
    /\ pc = "ref_for"
    /\ col < M.cols
    /\ pivot_row < M.rows
    /\ FindPivot(M, pivot_row, col) = None
    /\ pivot' = None
    /\ col' = col + 1
    /\ UNCHANGED <<A, M_is_A, earlier, ioVars, pc, M, pivot_cols, pivot_row, pivot_val, r, E, pivots, bsVars>>

\* Lines 84-95 when a pivot is found.
RefFindPivot ==
    /\ pc = "ref_for"
    /\ col < M.cols
    /\ pivot_row < M.rows
    /\ FindPivot(M, pivot_row, col) # None
    /\ pivot' = FindPivot(M, pivot_row, col)
    /\ pc' = "ref_swap"
    /\ UNCHANGED <<A, M_is_A, earlier, ioVars, M, pivot_cols, pivot_row, col, pivot_val, r, E, pivots, bsVars>>

\* Lines 97-102 recording the pivot column counted from 1.
RefSwap_RecordsOneBased ==
    /\ pc = "ref_swap"
    /\ LET S == IF pivot # pivot_row THEN row_swap(M, pivot, pivot_row) ELSE M
       IN  /\ M' = S
           /\ pivot_val' = S.e[pivot_row][col]
    /\ pivot_cols' = Append(pivot_cols, col + 1)
    /\ r' = pivot_row + 1
    /\ pc' = "ref_elim"
    /\ A' = (IF M_is_A THEN M' ELSE A)
    /\ UNCHANGED <<M_is_A, earlier, ioVars, pivot_row, col, pivot, E, pivots, bsVars>>

\* Lines 97-102 with pivot_val read before the swap, from the row that is at
\* pivot_row then.
RefSwap_ReadsBeforeSwap ==
    /\ pc = "ref_swap"
    /\ M' = IF pivot # pivot_row THEN row_swap(M, pivot, pivot_row) ELSE M
    /\ pivot_val' = M.e[pivot_row][col]
    /\ pivot_cols' = Append(pivot_cols, col)
    /\ r' = pivot_row + 1
    /\ pc' = "ref_elim"
    /\ A' = (IF M_is_A THEN M' ELSE A)
    /\ UNCHANGED <<M_is_A, earlier, ioVars, pivot_row, col, pivot, E, pivots, bsVars>>

\* Lines 97-102 with the pivot row divided by its pivot entry (a leading 1).
RefSwap_ScalesPivotRow ==
    /\ pc = "ref_swap"
    /\ LET S == IF pivot # pivot_row THEN row_swap(M, pivot, pivot_row) ELSE M
           pv == S.e[pivot_row][col]
       IN  /\ M' = [S EXCEPT !.e[pivot_row] = [j \in ColIdx(S) |-> RDiv(S.e[pivot_row][j], pv)]]
           /\ pivot_val' = Rat(1)
    /\ pivot_cols' = Append(pivot_cols, col)
    /\ r' = pivot_row + 1
    /\ pc' = "ref_elim"
    /\ A' = (IF M_is_A THEN M' ELSE A)
    /\ UNCHANGED <<M_is_A, earlier, ioVars, pivot_row, col, pivot, E, pivots, bsVars>>

\* Lines 97-102 recording the pivot's row instead of its column.
RefSwap_RecordsRow ==
    /\ pc = "ref_swap"
    /\ LET S == IF pivot # pivot_row THEN row_swap(M, pivot, pivot_row) ELSE M
       IN  /\ M' = S
           /\ pivot_val' = S.e[pivot_row][col]
    /\ pivot_cols' = Append(pivot_cols, pivot)
    /\ r' = pivot_row + 1
    /\ pc' = "ref_elim"
    /\ A' = (IF M_is_A THEN M' ELSE A)
    /\ UNCHANGED <<M_is_A, earlier, ioVars, pivot_row, col, pivot, E, pivots, bsVars>>

\* Lines 97-102: swap the pivot into place, read pivot_val, record the column.
RefSwap ==
    /\ pc = "ref_swap"
    /\ LET S == IF pivot # pivot_row THEN row_swap(M, pivot, pivot_row) ELSE M
       IN  /\ M' = S
           /\ pivot_val' = S.e[pivot_row][col]
    /\ pivot_cols' = Append(pivot_cols, col)
    /\ r' = pivot_row + 1
    /\ pc' = "ref_elim"
    /\ A' = (IF M_is_A THEN M' ELSE A)
    /\ UNCHANGED <<M_is_A, earlier, ioVars, pivot_row, col, pivot, E, pivots, bsVars>>

\* The elimination factor inverted: pivot_val / M[r, col].
EliminateRow_InvertedFactor(X, rr, prow, c, pval) ==
    IF X.e[rr][c] = RZero THEN X
    ELSE row_op_sub(X, rr, RDiv(pval, X.e[rr][c]), prow)

\* Lines 105-111, one row r below the pivot row.
EliminateRow(X, rr, prow, c, pval) ==
    IF X.e[rr][c] = RZero THEN X
    ELSE row_op_sub(X, rr, RDiv(X.e[rr][c], pval), prow)

\* The loop of line 105 stepping by two rows: every other row below the pivot
\* row is left as it is.
RefEliminate_EveryOtherRow ==
    /\ pc = "ref_elim"
    /\ r < M.rows
    /\ M' = EliminateRow(M, r, pivot_row, col, pivot_val)
    /\ r' = r + 2
    /\ A' = (IF M_is_A THEN M' ELSE A)
    /\ UNCHANGED <<M_is_A, earlier, ioVars, pc, pivot_cols, pivot_row, col, pivot, pivot_val, E, pivots, bsVars>>

RefEliminate ==
    /\ pc = "ref_elim"
    /\ r < M.rows
    /\ M' = EliminateRow(M, r, pivot_row, col, pivot_val)
    /\ r' = r + 1
    /\ A' = (IF M_is_A THEN M' ELSE A)
    /\ UNCHANGED <<M_is_A, earlier, ioVars, pc, pivot_cols, pivot_row, col, pivot, pivot_val, E, pivots, bsVars>>

\* Line 113 preceded by a normalisation of the pivot row to a leading 1.
RefAdvance_NormalizesPivotRow ==
    /\ pc = "ref_elim"
    /\ r >= M.rows
    /\ M' = [M EXCEPT !.e[pivot_row] = [j \in ColIdx(M) |-> RDiv(M.e[pivot_row][j], pivot_val)]]
    /\ pivot_row' = pivot_row + 1
    /\ col' = col + 1
    /\ pc' = "ref_for"
    /\ A' = (IF M_is_A THEN M' ELSE A)
    /\ UNCHANGED <<M_is_A, earlier, ioVars, pivot_cols, pivot, pivot_val, r, E, pivots, bsVars>>

\* The next column without  pivot_row += 1.
RefAdvance_KeepsRow ==
    /\ pc = "ref_elim"
    /\ r >= M.rows
    /\ col' = col + 1
    /\ pc' = "ref_for"
    /\ UNCHANGED <<A, M_is_A, earlier, ioVars, M, pivot_cols, pivot_row, pivot, pivot_val, r, E, pivots, bsVars>>

\* Line 113, then the next column.
RefAdvance ==
    /\ pc = "ref_elim"
    /\ r >= M.rows
    /\ pivot_row' = pivot_row + 1
    /\ col' = col + 1
    /\ pc' = "ref_for"
    /\ UNCHANGED <<A, M_is_A, earlier, ioVars, M, pivot_cols, pivot, pivot_val, r, E, pivots, bsVars>>

\* Lines 84-86 and 115: the loop ends (columns exhausted, or break) and ref
\* returns (M, tuple(pivot_cols)).
RefReturn ==
    /\ pc = "ref_for"
    /\ (col >= M.cols \/ pivot_row >= M.rows)
    /\ E' = M
    /\ pivots' = pivot_cols
    /\ pc' = "ref_done"
    /\ UNCHANGED <<A, M_is_A, earlier, ioVars, M, pivot_cols, pivot_row, col, pivot, pivot_val, r, bsVars>>

\* ------------------------------------------------- sympy affine expressions

\* The constant q, among K parameters.
ExprConst(q, K) == [k \in 0 .. K |-> IF k = 0 THEN q ELSE RZero]

\* The parameter symbol t_k, among K parameters: t = sp.symbols("t0:K").
ExprSym(k, K) == [c \in 0 .. K |-> IF c = k + 1 THEN Rat(1) ELSE RZero]

\* Line 126 adding the known term instead of subtracting it.
ExprSub_Adds(a, b) == [k \in DOMAIN a |-> RAdd(a[k], b[k])]

ExprSub(a, b) == [k \in DOMAIN a |-> RSub(a[k], b[k])]

ExprScale(q, a) == [k \in DOMAIN a |-> RMul(q, a[k])]

\* Line 127 multiplying by the pivot entry instead of dividing.
ExprDiv_Multiplies(a, q) == [k \in DOMAIN a |-> RMul(a[k], q)]

ExprDiv(a, q) == [k \in DOMAIN a |-> RDiv(a[k], q)]

\* ------------------------------------------------------- back_substitution

\* The inconsistency raised with the shape check's message.
Inconsistent_SameMessage == [type |-> "InputError", msg |-> "Augmented matrix has wrong number of columns."]

WrongColumns == [type |-> "InputError", msg |-> "Augmented matrix has wrong number of columns."]

Inconsistent == [type |-> "InputError", msg |-> "System is inconsistent (row of form 0=nonzero). No solution."]

\* Line 92 accepting a matrix with too many columns.
WrongShape_Narrow(X, nv) == X.cols < nv + 1

\* Line 92: total_cols != n_vars + 1.
WrongShape(X, nv) == X.cols # nv + 1

\* is_inconsistent_row with any() for all().
is_inconsistent_row_Any(X, rr, nv) ==
    /\ \E j \in 0 .. nv - 1 : X.e[rr][j] = RZero
    /\ X.e[rr][nv] # RZero

\* Lines 71-77: the row looks like [0 0 ... 0 | nonzero].
is_inconsistent_row(X, rr, nv) ==
    /\ \A j \in 0 .. nv - 1 : X.e[rr][j] = RZero
    /\ X.e[rr][nv] # RZero

\* Lines 104-108 without the break: the last nonzero column of the row.
FirstNonzero_Last(X, rr, nv) ==
    LET hits == {j \in 0 .. nv - 1 : X.e[rr][j] # RZero}
    IN  IF hits = {} THEN -1
        ELSE CHOOSE j \in hits : \A q \in hits : j >= q

\* Lines 104-108: the first nonzero column of row rr among the first nv, or -1.
FirstNonzero(X, rr, nv) ==
    LET hits == {j \in 0 .. nv - 1 : X.e[rr][j] # RZero}
    IN  IF hits = {} THEN -1
        ELSE CHOOSE j \in hits : \A q \in hits : j <= q

\* The elements of a set of integers as an increasing list.
RECURSIVE SortedSeq(_)
SortedSeq(S) ==
    IF S = {} THEN <<>>
    ELSE LET lo == CHOOSE a \in S : \A b \in S : a <= b
         IN  <<lo>> \o SortedSeq(S \ {lo})

\* Line 110 ranging over all the columns of the augmented matrix:
\* range(n_vars + 1).
FreeCols_AllColumns(nv, pset) == SortedSeq({j \in 0 .. nv : j \notin pset})

\* Line 110.
FreeCols(nv, pset) == SortedSeq({j \in 0 .. nv - 1 : j \notin pset})

\* Lines 115-116 binding the symbols in reverse: the k-th free column gets
\* t_(K-1-k).
InitialX_Reversed(nv, fc) ==
    [j \in 0 .. nv - 1 |->
        IF \E k \in 1 .. Len(fc) : fc[k] = j
        THEN ExprSym(Len(fc) - (CHOOSE k \in 1 .. Len(fc) : fc[k] = j), Len(fc))
        ELSE ExprConst(RZero, Len(fc))]

\* Lines 113-116: zeros, with each free column holding its own symbol.
InitialX(nv, fc) ==
    [j \in 0 .. nv - 1 |->
        IF \E k \in 1 .. Len(fc) : fc[k] = j
        THEN ExprSym((CHOOSE k \in 1 .. Len(fc) : fc[k] = j) - 1, Len(fc))
        ELSE ExprConst(RZero, Len(fc))]

\* The loop of line 125 stopping one column early: range(pc + 1, n_vars - 1).
RECURSIVE SubtractKnown_StopsEarly(_, _, _, _, _, _)
SubtractKnown_StopsEarly(X, rr, j, nv, xx, rhs) ==
    IF j >= nv - 1 THEN rhs
    ELSE SubtractKnown_StopsEarly(X, rr, j + 1, nv, xx,
                                  ExprSub(rhs, ExprScale(X.e[rr][j], xx[j])))

\* Lines 125-126: rhs after subtracting the terms of columns j .. nv-1.
RECURSIVE SubtractKnown(_, _, _, _, _, _)
SubtractKnown(X, rr, j, nv, xx, rhs) ==
    IF j >= nv THEN rhs
    ELSE SubtractKnown(X, rr, j + 1, nv, xx, ExprSub(rhs, ExprScale(X.e[rr][j], xx[j])))

\* Line 127 without the division by the pivot entry.
SubstituteRow_NoDivide(X, rr, nv, pcfr, xx, K) ==
    LET pcol == pcfr[rr]
    IN  IF pcol = -1 THEN xx
        ELSE [xx EXCEPT ![pcol] =
                SubtractKnown(X, rr, pcol + 1, nv, xx, ExprConst(X.e[rr][nv], K))]

\* Lines 120-127: x after row rr is processed.
SubstituteRow(X, rr, nv, pcfr, xx, K) ==
    LET pcol == pcfr[rr]
    IN  IF pcol = -1 THEN xx
        ELSE [xx EXCEPT ![pcol] =
                ExprDiv(SubtractKnown(X, rr, pcol + 1, nv, xx, ExprConst(X.e[rr][nv], K)),
                        X.e[rr][pcol])]

\* The n_vars a caller may pass along with a matrix of n columns: the right
\* one (n - 1) and wrong ones; at least 1, as main's read_int gives it.
NVarsChoices(n) == 1 .. n

BsEnter(X, nv) ==
    /\ Ab' = X
    /\ n_vars' = nv
    /\ pc' = "bs_shape"
    /\ UNCHANGED <<A, earlier, ioVars, refVars, pivot_col_for_row, pivot_set, free_cols, x, i, raised, sol, sol_free>>

\* sol, free_cols = back_substitution(A, nv), on the caller's matrix as given.
BsCall ==
    /\ pc = "idle"
    /\ \E nv \in NVarsChoices(A.cols) : BsEnter(A, nv)

\* sol, free_cols = back_substitution(E, n - 1), on the matrix ref returned.
BsCallOnRef ==
    /\ pc = "ref_done"
    /\ E.cols >= 2
    /\ BsEnter(E, E.cols - 1)

\* Lines 91-93.
BsShapeError ==
    /\ pc = "bs_shape"
    /\ WrongShape(Ab, n_vars)
    /\ raised' = WrongColumns
    /\ pc' = "bs_raised"
    /\ UNCHANGED <<A, earlier, ioVars, refVars, Ab, n_vars, pivot_col_for_row, pivot_set, free_cols, x, i, sol, sol_free>>

BsShapeOk ==
    /\ pc = "bs_shape"
    /\ ~WrongShape(Ab, n_vars)
    /\ pc' = "bs_check"
    /\ UNCHANGED <<A, earlier, ioVars, refVars, bsVars>>

\* Lines 95-98.
BsInconsistent ==
    /\ pc = "bs_check"
    /\ \E rr \in RowIdx(Ab) : is_inconsistent_row(Ab, rr, n_vars)
    /\ raised' = Inconsistent
    /\ pc' = "bs_raised"
    /\ UNCHANGED <<A, earlier, ioVars, refVars, Ab, n_vars, pivot_col_for_row, pivot_set, free_cols, x, i, sol, sol_free>>

BsConsistent ==
    /\ pc = "bs_check"
    /\ \A rr \in RowIdx(Ab) : ~is_inconsistent_row(Ab, rr, n_vars)
    /\ pc' = "bs_pivots"
    /\ UNCHANGED <<A, earlier, ioVars, refVars, bsVars>>

\* Lines 100-108.
BsIdentifyPivots ==
    /\ pc = "bs_pivots"
    /\ pivot_col_for_row' = [rr \in RowIdx(Ab) |-> FirstNonzero(Ab, rr, n_vars)]
    /\ pivot_set' = {FirstNonzero(Ab, rr, n_vars) : rr \in RowIdx(Ab)} \ {-1}
    /\ pc' = "bs_free"
    /\ UNCHANGED <<A, earlier, ioVars, refVars, Ab, n_vars, free_cols, x, i, raised, sol, sol_free>>

\* Lines 110-116.
BsBindFree ==
    /\ pc = "bs_free"
    /\ free_cols' = FreeCols(n_vars, pivot_set)
    /\ x' = InitialX(n_vars, FreeCols(n_vars, pivot_set))
    /\ i' = Ab.rows - 1
    /\ pc' = "bs_sub"
    /\ UNCHANGED <<A, earlier, ioVars, refVars, Ab, n_vars, pivot_col_for_row, pivot_set, raised, sol, sol_free>>

\* Lines 119-127, one row.
BsSubstitute ==
    /\ pc = "bs_sub"
    /\ i >= 0
    /\ x' = SubstituteRow(Ab, i, n_vars, pivot_col_for_row, x, Len(free_cols))
    /\ i' = i - 1
    /\ UNCHANGED <<A, earlier, ioVars, pc, refVars, Ab, n_vars, pivot_col_for_row, pivot_set, free_cols, raised, sol, sol_free>>

\* Line 129 reached with row 0 still to process.
BsReturn_BeforeRowZero ==
    /\ pc = "bs_sub"
    /\ i <= 0
    /\ sol' = x
    /\ sol_free' = free_cols
    /\ pc' = "bs_done"
    /\ UNCHANGED <<A, earlier, ioVars, refVars, Ab, n_vars, pivot_col_for_row, pivot_set, free_cols, x, i, raised>>

\* Line 129.
BsReturn ==
    /\ pc = "bs_sub"
    /\ i < 0
    /\ sol' = x
    /\ sol_free' = free_cols
    /\ pc' = "bs_done"
    /\ UNCHANGED <<A, earlier, ioVars, refVars, Ab, n_vars, pivot_col_for_row, pivot_set, free_cols, x, i, raised>>

\* ------------------------------------------------------------ repeated calls

\* A call has returned or raised.
CallEnded == pc \in {"ref_done", "bs_done", "bs_raised"}

\* What the call that just ended was given and what it gave back.
Outcome ==
    IF pc = "ref_done"
    THEN [call |-> "ref", arg |-> A, nv |-> 0, E |-> E, pivots |-> pivots,
          raised |-> NoException, sol |-> <<>>, sol_free |-> <<>>]
    ELSE [call |-> "bs", arg |-> Ab, nv |-> n_vars, E |-> NoMatrix, pivots |-> <<>>,
          raised |-> raised, sol |-> sol, sol_free |-> sol_free]

\* The call is over and the exception, if any, is handled: the frame of the
\* ended call is gone and the caller's results are unbound again, but for the
\* first outcome, kept to compare later ones with. M, pivot_cols, pivot_row
\* and col keep their last values until lines 79-84 bind them anew.
CallOver ==
    /\ CallEnded
    /\ pc' = "idle"
    /\ earlier' = IF earlier = NoCall THEN Outcome ELSE earlier
    /\ pivot' = None
    /\ pivot_val' = RZero
    /\ r' = 0
    /\ E' = NoMatrix
    /\ pivots' = <<>>
    /\ Ab' = NoMatrix
    /\ n_vars' = 0
    /\ pivot_col_for_row' = <<>>
    /\ pivot_set' = {}
    /\ free_cols' = <<>>
    /\ x' = <<>>
    /\ i' = 0
    /\ raised' = NoException
    /\ sol' = <<>>
    /\ sol_free' = <<>>
    /\ UNCHANGED <<M, M_is_A, pivot_cols, pivot_row, col, ioVars>>

\* main's  while True:  the user runs the script again on the same matrix.
Rerun ==
    /\ CallOver
    /\ UNCHANGED A

\* The user enters the matrix ref printed as the next matrix.
Feed ==
    /\ pc = "ref_done"
    /\ E # A
    /\ CallOver
    /\ A' = E

\* -------------------------------------------------------------- typed lines

\* A line of text is a sequence of characters, each a one-character string;
\* "sup2" stands for the superscript two and "ar3" for the Arabic-Indic
\* digit three, one character each.
DecimalValue ==
    [c \in {"0", "1", "2", "3", "9", "ar3"} |->
        CASE c = "0" -> 0 [] c = "1" -> 1 [] c = "2" -> 2 [] c = "3" -> 3
          [] c = "9" -> 9 [] c = "ar3" -> 3]

\* The characters str.isdigit() takes for digits: the decimal ones, and
\* digit-like characters that are not decimal.
DigitChars == DOMAIN DecimalValue \cup {"sup2"}

RECURSIVE lstrip(_)
lstrip(s) == IF s # <<>> /\ Head(s) = " " THEN lstrip(Tail(s)) ELSE s

RECURSIVE rstrip(_)
rstrip(s) ==
    IF s # <<>> /\ s[Len(s)] = " " THEN rstrip(SubSeq(s, 1, Len(s) - 1)) ELSE s

\* str.strip()
strip(s) == rstrip(lstrip(s))

\* str.lower()
lower(s) ==
    [k \in 1 .. Len(s) |->
        CASE s[k] = "Q" -> "q" [] s[k] = "U" -> "u" [] s[k] = "I" -> "i"
          [] s[k] = "T" -> "t" [] s[k] = "N" -> "n" [] s[k] = "O" -> "o"
          [] s[k] = "E" -> "e" [] s[k] = "X" -> "x" [] OTHER -> s[k]]

\* str.isdigit(): not empty, and every character a digit character.
isdigit(s) == s # <<>> /\ \A k \in 1 .. Len(s) : s[k] \in DigitChars

\* int(s) for a string of decimal digits.
RECURSIVE DecimalNumber(_)
DecimalNumber(s) ==
    IF s = <<>> THEN 0
    ELSE 10 * DecimalNumber(SubSeq(s, 1, Len(s) - 1)) + DecimalValue[s[Len(s)]]

\* int() accepts the string: decimal digits only, at least one.
IsDecimal(s) == s # <<>> /\ \A k \in 1 .. Len(s) : s[k] \in DOMAIN DecimalValue

\* Line 37: the words that make read_int raise KeyboardInterrupt.
QuitWords == {<<"q">>, <<"q", "u", "i", "t">>, <<"e", "x", "i", "t">>}

\* Line 43 without its first comparison: a number below min_value is returned.
read_int_NoLowerBound(typed, min_value, max_value) ==
    LET s == strip(typed)
    IN  IF lower(s) \in QuitWords THEN [kind |-> "KeyboardInterrupt", val |-> 0]
        ELSE IF ~isdigit(s) THEN [kind |-> "again", val |-> 0]
        ELSE IF ~IsDecimal(s) THEN [kind |-> "ValueError", val |-> 0]
        ELSE IF DecimalNumber(s) > max_value THEN [kind |-> "again", val |-> 0]
        ELSE [kind |-> "return", val |-> DecimalNumber(s)]

\* Lines 36-46, one pass of the loop on the line typed: read_int returns
\* val, or goes round again, or raises.
read_int(typed, min_value, max_value) ==
    LET s == strip(typed)
    IN  IF lower(s) \in QuitWords THEN [kind |-> "KeyboardInterrupt", val |-> 0]
        ELSE IF ~isdigit(s) THEN [kind |-> "again", val |-> 0]
        ELSE IF ~IsDecimal(s) THEN [kind |-> "ValueError", val |-> 0]
        ELSE IF DecimalNumber(s) < min_value \/ DecimalNumber(s) > max_value
             THEN [kind |-> "again", val |-> 0]
        ELSE [kind |-> "return", val |-> DecimalNumber(s)]

\* An optional minus sign and decimal digits.
IsSignedInt(s) ==
    IF s # <<>> /\ Head(s) = "-" THEN IsDecimal(Tail(s)) ELSE IsDecimal(s)

SignedInt(s) ==
    IF Head(s) = "-" THEN 0 - DecimalNumber(Tail(s)) ELSE DecimalNumber(s)

\* The positions of "/" in a token.
Slashes(s) == {k \in 1 .. Len(s) : s[k] = "/"}

\* Lines 16-23 for the tokens typed here, which are integers, fractions p/q
\* or no numbers at all: sp.Rational(token) in lowest terms, or InputError
\* (ok = FALSE) for the empty token and for whatever sp.Rational refuses,
\* a zero denominator included.
parse_number(token) ==
    LET t    == strip(token)
        bad  == [ok |-> FALSE, val |-> RZero]
        good(num, den) == [ok |-> TRUE, val |-> Norm(num, den)]
    IN  IF t = <<>> THEN bad
        ELSE IF Slashes(t) = {} THEN
                 IF IsSignedInt(t) THEN good(SignedInt(t), 1) ELSE bad
        ELSE IF Cardinality(Slashes(t)) > 1 THEN bad
        ELSE LET k == CHOOSE q \in Slashes(t) : TRUE
                 p == SubSeq(t, 1, k - 1)
                 d == SubSeq(t, k + 1, Len(t))
             IN  IF IsSignedInt(p) /\ IsSignedInt(d) /\ SignedInt(d) # 0
                 THEN good(SignedInt(p), SignedInt(d))
                 ELSE bad

\* Line 27: commas become spaces.
CommasToSpaces(s) == [k \in 1 .. Len(s) |-> IF s[k] = "," THEN " " ELSE s[k]]

\* Line 28, str.split(): the maximal runs of characters other than spaces;
\* cur is the run being read, acc the runs before it.
RECURSIVE split(_, _, _)
split(s, cur, acc) ==
    IF s = <<>> THEN (IF cur = <<>> THEN acc ELSE Append(acc, cur))
    ELSE IF Head(s) = " "
         THEN split(Tail(s), <<>>, IF cur = <<>> THEN acc ELSE Append(acc, cur))
         ELSE split(Tail(s), Append(cur, Head(s)), acc)

\* Line 29 refusing only a line with too few numbers, and reading the first n
\* of a longer one.
parse_row_TruncatesExtra(row_text, n) ==
    LET parts == split(CommasToSpaces(strip(row_text)), <<>>, <<>>)
    IN  IF Len(parts) < n THEN [ok |-> FALSE, row |-> <<>>]
        ELSE IF \E k \in 1 .. n : ~parse_number(parts[k]).ok
             THEN [ok |-> FALSE, row |-> <<>>]
        ELSE [ok |-> TRUE, row |-> [k \in 1 .. n |-> parse_number(parts[k]).val]]

\* Lines 26-31: the row of n numbers, or InputError (ok = FALSE).
parse_row(row_text, n) ==
    LET parts == split(CommasToSpaces(strip(row_text)), <<>>, <<>>)
    IN  IF Len(parts) # n THEN [ok |-> FALSE, row |-> <<>>]
        ELSE IF \E k \in 1 .. n : ~parse_number(parts[k]).ok
             THEN [ok |-> FALSE, row |-> <<>>]
        ELSE [ok |-> TRUE, row |-> [k \in 1 .. n |-> parse_number(parts[k]).val]]

\* -------------------------------------------------------------------- main

\* Lines 139 and 140: the largest n and m that main lets read_int return.
NVarsMax == 20

RowsMax == 30

\* The lines a user types at the two integer prompts: blank ones, quit
\* words in any case, numbers in and out of range, signs, fractions, and
\* digit characters that are no decimal digits.
IntLines ==
    { <<>>, <<" ">>,
      <<"q">>, <<" ", "Q", " ">>, <<"Q", "u", "I", "T">>, <<"e", "x", "i", "t">>,
      <<"q", "q">>, <<"n">>,
      <<"0">>, <<"1">>, <<"2">>, <<" ", "2", " ">>, <<"0", "1">>,
      <<"9", "9">>, <<"ar3", "9">>,
      <<"-", "1">>, <<"1", "/", "2">>, <<"1", " ", "2">>,
      <<"sup2">>, <<"1", "sup2">> }

\* The number tokens typed in rows, and tokens that are no numbers.
Tokens == { <<"0">>, <<"1">>, <<"1", "/", "2">> }

BadTokens == { <<"x">>, <<"1", "/", "0">>, <<"1", "/", "/", "2">>, <<"/">>, <<"-">> }

\* The tokens of ts with sep between them.
RECURSIVE Join(_, _)
Join(ts, sep) ==
    IF Len(ts) = 0 THEN <<>>
    ELSE IF Len(ts) = 1 THEN ts[1]
    ELSE ts[1] \o sep \o Join(Tail(ts), sep)

\* The lines a user types for a row of total numbers: every row over Tokens
\* with single spaces; rows written with commas, doubled separators and
\* blanks around; rows with a number missing or one too many; rows with a
\* token that is no number; the empty line; a quit word.
RowLines(total) ==
    {Join(f, <<" ">>) : f \in [1 .. total -> Tokens]}
    \cup {<<" ">> \o Join(f, <<",", " ">>) \o <<" ">> :
             f \in [1 .. total -> {<<"1">>, <<"1", "/", "2">>}]}
    \cup {Join(f, <<",", ",">>) : f \in [1 .. total -> {<<"-", "2">>}]}
    \cup {Join(f, <<" ">>) : f \in [1 .. total - 1 -> {<<"1">>}]}
    \cup {Join(f, <<",">>) : f \in [1 .. total + 1 -> {<<"1">>}]}
    \cup {Join(f, <<" ">>) :
             f \in {g \in [1 .. total -> {<<"1">>} \cup BadTokens] :
                       \E k \in 1 .. total : g[k] \in BadTokens /\
                           \A q \in 1 .. total : q # k => g[q] = <<"1">>}}
    \cup {<<>>, <<" ">>, <<"q">>}

\* The answers typed at "Run again?" and at "Press Enter to continue...".
AgainLines ==
    { <<>>, <<"y">>, <<" ", "Q", " ">>, <<"q", "u", "i", "t">>,
      <<"N", "O">>, <<"n">>, <<"e", "x", "i", "t">>, <<"n", "o", "n">> }

EnterLines == { <<>>, <<"q">>, <<"1">> }

\* Line 157: the answers that end main.
QuitAnswers == {<<"q">>, <<"q", "u", "i", "t">>, <<"n", "o">>, <<"n">>}

\* Line 68: sp.Matrix(rows).
MatrixOfRows(rs) ==
    Matrix(Len(rs), Len(rs[1]),
           [q \in 0 .. Len(rs) - 1 |-> [j \in 0 .. Len(rs[1]) - 1 |-> rs[q + 1][j + 1]]])

\* What main prints, by kind.
PositiveInteger == "Please enter a positive integer."

BetweenMinAndMax == "Please enter a number between min and max."

RowRejected == "Example: 1, 2, -3, 7"

EnterTheMatrix == "Enter the AUGMENTED matrix row by row"

YouEntered == "You entered [A|b] ="

SolutionPrinted == "Solution:"

ErrorShown == "InputError message"

UnexpectedError == "Unexpected error (program continues):"

Bye == "Bye!"

\* main is at one of its two read_int calls; the bound it passes.
AtIntPrompt == pc \in {"main_n", "main_m"}

max_value == IF pc = "main_n" THEN NVarsMax ELSE RowsMax

\* Line 137, the top of  while True:  anew. The names of the round before
\* are bound again before they are read, so they are shown unbound here.
NewRound ==
    /\ pc' = "main_n"
    /\ A' = NoMatrix
    /\ main_n_vars' = 0
    /\ main_m' = 0
    /\ read_rows' = <<>>
    /\ printed' = {}
    /\ Ab' = NoMatrix
    /\ n_vars' = 0
    /\ pivot_col_for_row' = <<>>
    /\ pivot_set' = {}
    /\ free_cols' = <<>>
    /\ x' = <<>>
    /\ i' = 0
    /\ raised' = NoException
    /\ sol' = <<>>
    /\ sol_free' = <<>>
    /\ UNCHANGED <<earlier, refVars>>

\* Lines 36-46 then 139 or 140: the line typed is a number in range and
\* read_int returns it.
ReadIntReturn ==
    /\ AtIntPrompt
    /\ \E t \in IntLines :
          LET got == read_int(t, 1, max_value)
          IN  /\ got.kind = "return"
              /\ entered' = t
              /\ IF pc = "main_n"
                 THEN /\ main_n_vars' = got.val
                      /\ pc' = "main_m"
                      /\ printed' = {}
                      /\ UNCHANGED main_m
                 ELSE /\ main_m' = got.val
                      /\ pc' = "main_row"
                      /\ printed' = {EnterTheMatrix}
                      /\ UNCHANGED main_n_vars
    /\ UNCHANGED <<A, earlier, refVars, bsVars, read_rows>>

\* Lines 39-41 and 43-45: read_int prints and prompts again.
ReadIntAgain ==
    /\ AtIntPrompt
    /\ \E t \in IntLines :
          /\ read_int(t, 1, max_value).kind = "again"
          /\ entered' = t
          /\ printed' = {IF isdigit(strip(t)) THEN BetweenMinAndMax ELSE PositiveInteger}
    /\ UNCHANGED <<A, pc, earlier, refVars, bsVars, main_n_vars, main_m, read_rows>>

\* Lines 37-38 then 162-164: a quit word, KeyboardInterrupt, main returns.
ReadIntQuit ==
    /\ AtIntPrompt
    /\ \E t \in IntLines :
          /\ read_int(t, 1, max_value).kind = "KeyboardInterrupt"
          /\ entered' = t
    /\ printed' = {Bye}
    /\ pc' = "main_ended"
    /\ UNCHANGED <<A, earlier, refVars, bsVars, main_n_vars, main_m, read_rows>>

\* Line 42 then 168-170: int(s) raises ValueError out of read_int and main's
\* except Exception  takes it.
ReadIntValueError ==
    /\ AtIntPrompt
    /\ \E t \in IntLines :
          /\ read_int(t, 1, max_value).kind = "ValueError"
          /\ entered' = t
    /\ printed' = {UnexpectedError}
    /\ pc' = "main_unexpected"
    /\ UNCHANGED <<A, earlier, refVars, bsVars, main_n_vars, main_m, read_rows>>

\* Lines 61-64, and 68 after the last row: the line parses, the row is
\* appended and the for loop goes on.
ReadRowAccepted ==
    /\ pc = "main_row"
    /\ \E t \in RowLines(main_n_vars + 1) :
          LET got == parse_row(t, main_n_vars + 1)
          IN  /\ got.ok
              /\ entered' = t
              /\ read_rows' = Append(read_rows, got.row)
    /\ IF Len(read_rows') = main_m
       THEN /\ A' = MatrixOfRows(read_rows')
            /\ pc' = "main_call"
       ELSE UNCHANGED <<A, pc>>
    /\ printed' = {}
    /\ UNCHANGED <<earlier, refVars, bsVars, main_n_vars, main_m>>

\* Lines 61-67: parse_row raises InputError, the message is printed and the
\* same row is asked for again.
ReadRowRejected ==
    /\ pc = "main_row"
    /\ \E t \in RowLines(main_n_vars + 1) :
          /\ ~parse_row(t, main_n_vars + 1).ok
          /\ entered' = t
    /\ printed' = {RowRejected}
    /\ UNCHANGED <<A, pc, earlier, refVars, bsVars, main_n_vars, main_m, read_rows>>

\* Lines 143-146: the matrix is shown and back_substitution is called.
MainCall ==
    /\ pc = "main_call"
    /\ Ab' = A
    /\ n_vars' = main_n_vars
    /\ pc' = "bs_shape"
    /\ printed' = printed \cup {YouEntered}
    /\ UNCHANGED <<A, earlier, refVars, pivot_col_for_row, pivot_set, free_cols, x, i,
                   raised, sol, sol_free, entered, main_n_vars, main_m, read_rows>>

\* Lines 148-154: back_substitution returned and the solution is printed.
MainPrintSolution ==
    /\ pc = "bs_done"
    /\ main_m > 0
    /\ printed' = printed \cup {SolutionPrinted}
    /\ pc' = "main_again"
    /\ UNCHANGED <<A, earlier, refVars, bsVars, entered, main_n_vars, main_m, read_rows>>

\* An  except InputError  that gives up: it says Bye and returns.
MainCatchInputError_Ends ==
    /\ pc = "bs_raised"
    /\ main_m > 0
    /\ printed' = printed \cup {ErrorShown, Bye}
    /\ pc' = "main_ended"
    /\ UNCHANGED <<A, earlier, refVars, bsVars, entered, main_n_vars, main_m, read_rows>>

\* Lines 165-166: back_substitution raised InputError and main shows it.
MainCatchInputError ==
    /\ pc = "bs_raised"
    /\ main_m > 0
    /\ printed' = printed \cup {ErrorShown}
    /\ pc' = "main_input_error"
    /\ UNCHANGED <<A, earlier, refVars, bsVars, entered, main_n_vars, main_m, read_rows>>

\* Lines 156-159: a quit answer ends main.
MainAgainQuit ==
    /\ pc = "main_again"
    /\ \E t \in AgainLines :
          /\ lower(strip(t)) \in QuitAnswers
          /\ entered' = t
    /\ printed' = {Bye}
    /\ pc' = "main_ended"
    /\ UNCHANGED <<A, earlier, refVars, bsVars, main_n_vars, main_m, read_rows>>

\* Lines 156-160: any other answer starts the next round.
MainAgainYes ==
    /\ pc = "main_again"
    /\ \E t \in AgainLines :
          /\ lower(strip(t)) \notin QuitAnswers
          /\ entered' = t
    /\ NewRound

\* Lines 167 and 170: whatever is typed at "Press Enter to continue...",
\* the next round starts.
MainPressEnter ==
    /\ pc \in {"main_input_error", "main_unexpected"}
    /\ \E t \in EnterLines : entered' = t
    /\ NewRound

\* ------------------------------------------------------------ specification

Next ==
    \/ RefCall
    \/ RefSkipColumn
    \/ RefFindPivot
    \/ RefSwap
    \/ RefEliminate
    \/ RefAdvance
    \/ RefReturn
    \/ BsCall
    \/ BsCallOnRef
    \/ BsShapeError
    \/ BsShapeOk
    \/ BsInconsistent
    \/ BsConsistent
    \/ BsIdentifyPivots
    \/ BsBindFree
    \/ BsSubstitute
    \/ BsReturn

Spec == Init /\ [][Next]_vars

\* The same with calls following one another.
NextRepeat ==
    \/ Next
    \/ Rerun
    \/ Feed

SpecRepeat == Init /\ [][NextRepeat]_vars

\* main of Back subtracktion.py at its first prompt.
InitMain ==
    /\ A = NoMatrix
    /\ pc = "main_n"
    /\ M = NoMatrix
    /\ M_is_A = FALSE
    /\ pivot_cols = <<>>
    /\ pivot_row = 0
    /\ col = 0
    /\ pivot = None
    /\ pivot_val = RZero
    /\ r = 0
    /\ E = NoMatrix
    /\ pivots = <<>>
    /\ Ab = NoMatrix
    /\ n_vars = 0
    /\ pivot_col_for_row = <<>>
    /\ pivot_set = {}
    /\ free_cols = <<>>
    /\ x = <<>>
    /\ i = 0
    /\ raised = NoException
    /\ sol = <<>>
    /\ sol_free = <<>>
    /\ earlier = NoCall
    /\ entered = <<>>
    /\ main_n_vars = 0
    /\ main_m = 0
    /\ read_rows = <<>>
    /\ printed = {}

\* main's loop around back_substitution. Line 91's shape error is not among
\* the steps: read_augmented_matrix hands over n_vars + 1 columns.
NextMain ==
    \/ ReadIntReturn
    \/ ReadIntAgain
    \/ ReadIntQuit
    \/ ReadIntValueError
    \/ ReadRowAccepted
    \/ ReadRowRejected
    \/ MainCall
    \/ BsShapeOk
    \/ BsInconsistent
    \/ BsConsistent
    \/ BsIdentifyPivots
    \/ BsBindFree
    \/ BsSubstitute
    \/ BsReturn
    \/ MainPrintSolution
    \/ MainCatchInputError
    \/ MainAgainQuit
    \/ MainAgainYes
    \/ MainPressEnter

SpecMain == InitMain /\ [][NextMain]_vars

\* ------------------------------------------- linear algebra, independently

\* Fractions <<num, den>> with den > 0, not reduced to lowest terms: such a
\* fraction is zero exactly when num = 0.
QAdd(p, q) == <<p[1] * q[2] + q[1] * p[2], p[2] * q[2]>>

QMul(p, q) == <<p[1] * q[1], p[2] * q[2]>>

\* The determinant of the square submatrix of X on rows rs and columns cs
\* (increasing lists of equal length), by expansion along the first row; an
\* unreduced fraction.
RECURSIVE Det(_, _, _), DetSum(_, _, _, _)
Det(X, rs, cs) ==
    IF Len(rs) = 0 THEN <<1, 1>> ELSE DetSum(X, rs, cs, 1)

DetSum(X, rs, cs, j) ==
    IF j > Len(cs) THEN <<0, 1>>
    ELSE LET rest  == SubSeq(cs, 1, j - 1) \o SubSeq(cs, j + 1, Len(cs))
             minor == QMul(X.e[rs[1]][cs[j]], Det(X, Tail(rs), rest))
             term  == IF j % 2 = 1 THEN minor ELSE <<-minor[1], minor[2]>>
         IN  QAdd(term, DetSum(X, rs, cs, j + 1))

\* The subsets of k elements of a set of integers.
RECURSIVE OfSize(_, _)
OfSize(S, k) ==
    IF k = 0 THEN {{}}
    ELSE UNION {{T \cup {a} : T \in OfSize({b \in S : b > a}, k - 1)} : a \in S}

HasMinor(X, rset, cset, k) ==
    \E R \in OfSize(rset, k) : \E C \in OfSize(cset, k) :
        Det(X, SortedSeq(R), SortedSeq(C))[1] # 0

MinOf(a, b) == IF a < b THEN a ELSE b

\* The rank of the submatrix of X on the columns cset: the size of its
\* largest nonzero minor.
RECURSIVE LargestMinor(_, _, _)
LargestMinor(X, cset, k) ==
    IF k = 0 \/ HasMinor(X, RowIdx(X), cset, k) THEN k
    ELSE LargestMinor(X, cset, k - 1)

RankOn(X, cset) == LargestMinor(X, cset, MinOf(X.rows, Cardinality(cset)))

Rank(X) == RankOn(X, ColIdx(X))

\* The system [A|b] given by the augmented matrix X has a solution
\* (Rouche-Capelli: the right-hand side adds nothing to the rank).
Solvable(X) == RankOn(X, 0 .. X.cols - 2) = Rank(X)

\* The rows of X above the rows of Y (same number of columns).
Stack(X, Y) ==
    Matrix(X.rows + Y.rows, X.cols,
           [q \in 0 .. X.rows + Y.rows - 1 |->
               IF q < X.rows THEN X.e[q] ELSE Y.e[q - X.rows]])

\* X and Y have the same row space: neither adds to the rank of the other.
SameRowSpace(X, Y) ==
    /\ Rank(X) = Rank(Y)
    /\ Rank(Stack(X, Y)) = Rank(X)

ZeroRow(X, rr) == \A j \in ColIdx(X) : X.e[rr][j] = RZero

\* The column of the leading (first nonzero) entry of row rr, or -1.
Lead(X, rr) ==
    IF ZeroRow(X, rr) THEN -1
    ELSE CHOOSE j \in ColIdx(X) :
            /\ X.e[rr][j] # RZero
            /\ \A q \in 0 .. j - 1 : X.e[rr][q] = RZero

\* Row echelon form: a nonzero row's leading entry is strictly right of the
\* leading entry of the row above, which is nonzero too.
IsREF(X) ==
    \A rr \in 1 .. X.rows - 1 :
        Lead(X, rr) # -1 => (Lead(X, rr - 1) # -1 /\ Lead(X, rr - 1) < Lead(X, rr))

\* Row rr reads 0 = nonzero for nv unknowns.
ZeroEqNonzero(X, rr, nv) ==
    /\ \A j \in 0 .. nv - 1 : X.e[rr][j] = RZero
    /\ X.e[rr][nv] # RZero

ExprAdd(a, b) == [k \in DOMAIN a |-> RAdd(a[k], b[k])]

\* sum over j .. nv-1 of X[rr, j] * xx[j], as an expression in the parameters.
RECURSIVE RowSum(_, _, _, _, _, _)
RowSum(X, rr, j, nv, xx, K) ==
    IF j >= nv THEN ExprConst(RZero, K)
    ELSE ExprAdd(ExprScale(X.e[rr][j], xx[j]), RowSum(X, rr, j + 1, nv, xx, K))

\* The solution xx satisfies row rr of X whatever the parameters' values:
\* the two sides are the same expression.
RowSatisfied(X, rr, nv, xx, K) ==
    RowSum(X, rr, 0, nv, xx, K) = ExprConst(X.e[rr][nv], K)

Satisfies(X, nv, xx, K) == \A rr \in RowIdx(X) : RowSatisfied(X, rr, nv, xx, K)

\* sum over j .. nv-1 of X[rr, j] * cand[j] for integers cand[j], as a
\* fraction <<num, den>> not reduced to lowest terms.
RECURSIVE Dot(_, _, _, _, _)
Dot(X, rr, j, nv, cand) ==
    IF j >= nv THEN <<0, 1>>
    ELSE LET a == X.e[rr][j]
             t == Dot(X, rr, j + 1, nv, cand)
         IN  <<a[1] * cand[j] * t[2] + t[1] * a[2], a[2] * t[2]>>

\* A vector of integers cand satisfies every row of the augmented matrix X.
NumSatisfies(X, cand) ==
    \A rr \in RowIdx(X) :
        LET lhs == Dot(X, rr, 0, X.cols - 1, cand)
            rhs == X.e[rr][X.cols - 1]
        IN  lhs[1] * rhs[2] = rhs[1] * lhs[2]

Candidates(nv) == [0 .. nv - 1 -> CandVals]

\* ------------------------------------------------------------------ claims

\* back_substitution has ended (returned or raised).
BsEnded == pc \in {"bs_done", "bs_raised"}

\* The running or ended back_substitution was called on ref's result.
OnRef == E # NoMatrix

Fractional(X) == \E rr \in RowIdx(X) : \E j \in ColIdx(X) : X.e[rr][j][2] # 1

\* C1: solving [A|b] end to end, back_substitution on the matrix returned by
\* ref([A|b]) raises the inconsistency error exactly when A x = b has no
\* solution (and never the shape error), and otherwise returns a vector that
\* satisfies every row of the original [A|b] whatever the values of the
\* parameters t0, t1, ...
C1_EndToEndSolve ==
    (OnRef /\ BsEnded) =>
        /\ (pc = "bs_raised") <=> ~Solvable(A)
        /\ pc = "bs_raised" => raised = Inconsistent
        /\ pc = "bs_done" => Satisfies(A, A.cols - 1, sol, Len(sol_free))

\* A system of two equations that ref had to change, solved with a fraction
\* in the solution.
C1_Witness ==
    /\ OnRef
    /\ pc = "bs_done"
    /\ A.rows >= 2
    /\ E # A
    /\ \E j \in DOMAIN sol : sol[j][0][2] # 1

\* C2: for an augmented matrix in row echelon form with n_vars + 1 columns and
\* no row 0 = nonzero, back_substitution returns, and the returned vector
\* satisfies every row of the matrix whatever the parameters' values.
C2_EchelonSolved ==
    (/\ BsEnded
     /\ Ab.cols = n_vars + 1
     /\ IsREF(Ab)
     /\ \A rr \in RowIdx(Ab) : ~ZeroEqNonzero(Ab, rr, n_vars))
        => /\ pc = "bs_done"
           /\ Satisfies(Ab, n_vars, sol, Len(sol_free))

\* A caller's own echelon matrix with two pivot rows, where the upper row has
\* a term to the right of its pivot that is substituted.
C2_Witness ==
    /\ ~OnRef
    /\ pc = "bs_done"
    /\ IsREF(Ab)
    /\ Ab.rows = 2
    /\ pivot_col_for_row[0] = 0
    /\ pivot_col_for_row[1] = 1
    /\ Ab.e[0][1] # RZero
    /\ sol[1][0] # RZero

\* C3: the matrix ref returns is in row echelon form: with k pivot columns,
\* row i < k has its leading entry at column pivot_cols[i], and every row
\* i >= k is entirely zero.
C3_ValidEchelonForm ==
    pc = "ref_done" =>
        /\ Len(pivots) <= E.rows
        /\ \A k \in 1 .. Len(pivots) : Lead(E, k - 1) = pivots[k]
        /\ \A rr \in Len(pivots) .. E.rows - 1 : ZeroRow(E, rr)
        /\ IsREF(E)

\* More rows than columns, fewer pivots than columns, a zero row produced by
\* elimination.
C3_Witness ==
    /\ pc = "ref_done"
    /\ E.rows > E.cols
    /\ Len(pivots) >= 1
    /\ Len(pivots) < E.cols
    /\ \A rr \in RowIdx(A) : ~ZeroRow(A, rr)
    /\ ZeroRow(E, E.rows - 1)

\* C4: in the matrix ref returns, every entry below a pivot, in the pivot's
\* column, is exactly zero.
C4_ZeroBelowPivot ==
    pc = "ref_done" =>
        \A k \in 1 .. Len(pivots) : \A rr \in k .. E.rows - 1 :
            E.e[rr][pivots[k]] = RZero

\* Two pivots, and an elimination that left a fraction in the matrix.
C4_Witness ==
    /\ pc = "ref_done"
    /\ Len(pivots) >= 2
    /\ Fractional(E)

\* C5: the pivot columns ref returns are strictly increasing, lie in
\* 0 .. n-1, and are at most min(m, n) many.
C5_PivotMonotonicity ==
    pc = "ref_done" =>
        /\ \A k \in 1 .. Len(pivots) - 1 : pivots[k] < pivots[k + 1]
        /\ \A k \in 1 .. Len(pivots) : pivots[k] \in 0 .. A.cols - 1
        /\ Len(pivots) <= MinOf(A.rows, A.cols)

\* Two pivots with a skipped column between them.
C5_Witness ==
    /\ pc = "ref_done"
    /\ Len(pivots) = 2
    /\ pivots[2] > pivots[1] + 1

\* ref is running or has returned.
InRef == pc \in {"ref_for", "ref_swap", "ref_elim", "ref_done"}

NonzeroRows(X) == Cardinality({rr \in RowIdx(X) : ~ZeroRow(X, rr)})

\* C6: ref preserves the solution set, after every swap and every elimination
\* step: the working matrix M keeps the row space of [A|b], and every
\* candidate vector satisfies all rows of [A|b] exactly when it satisfies all
\* rows of M; so does the returned matrix.
C6_SolutionSetPreserved ==
    InRef =>
        /\ SameRowSpace(A, M)
        /\ \A cand \in Candidates(A.cols - 1) : NumSatisfies(A, cand) <=> NumSatisfies(M, cand)
        /\ pc = "ref_done" => E = M

\* In the middle of an elimination pass, after a swap and a changed row, for
\* a system that some candidates solve and others do not.
C6_Witness ==
    /\ pc = "ref_elim"
    /\ M # A
    /\ pivot # pivot_row
    /\ r = M.rows
    /\ M.e[r - 1] # A.e[r - 1]
    /\ \E cand \in Candidates(A.cols - 1) : NumSatisfies(M, cand)
    /\ \E cand \in Candidates(A.cols - 1) : ~NumSatisfies(M, cand)

\* C7: the number of pivot columns ref returns is the rank of A (the size of
\* its largest nonzero minor) and the number of nonzero rows of the returned
\* matrix.
C7_PivotCountIsRank ==
    pc = "ref_done" =>
        /\ Len(pivots) = Rank(A)
        /\ Len(pivots) = NonzeroRows(E)

\* A rank-deficient matrix without zero rows.
C7_Witness ==
    /\ pc = "ref_done"
    /\ Len(pivots) >= 1
    /\ Len(pivots) < MinOf(A.rows, A.cols)
    /\ \A rr \in RowIdx(A) : ~ZeroRow(A, rr)

NothingComputed ==
    /\ pivot_col_for_row = <<>>
    /\ pivot_set = {}
    /\ free_cols = <<>>
    /\ x = <<>>
    /\ sol = <<>>
    /\ sol_free = <<>>

\* C8: with the right column count, back_substitution raises the
\* inconsistency error exactly when some row (any row) has its first n_vars
\* entries zero and a nonzero last entry; no pivot is identified and nothing
\* is substituted while such a row exists, and when the error is raised no
\* solution entry has been computed or returned.
C8_InconsistencyDetected ==
    (Ab # NoMatrix /\ Ab.cols = n_vars + 1) =>
        /\ BsEnded =>
              ((pc = "bs_raised" /\ raised = Inconsistent)
                  <=> \E rr \in RowIdx(Ab) : ZeroEqNonzero(Ab, rr, n_vars))
        /\ pc \in {"bs_pivots", "bs_free", "bs_sub", "bs_done"} =>
              \A rr \in RowIdx(Ab) : ~ZeroEqNonzero(Ab, rr, n_vars)
        /\ pc = "bs_raised" => NothingComputed

\* The error raised for a matrix whose only 0 = nonzero row is its first row.
C8_Witness ==
    /\ pc = "bs_raised"
    /\ raised = Inconsistent
    /\ Ab.rows >= 2
    /\ ZeroEqNonzero(Ab, 0, n_vars)
    /\ \A rr \in 1 .. Ab.rows - 1 : ~ZeroEqNonzero(Ab, rr, n_vars)

\* C9: a matrix without exactly n_vars + 1 columns never gets past the shape
\* check: the call ends by raising the wrong-columns error (also when a row
\* reads 0 = nonzero), with nothing computed or returned; and that error is
\* raised for no other matrix.
C9_ShapeCheckFirst ==
    /\ (Ab # NoMatrix /\ Ab.cols # n_vars + 1 /\ pc # "bs_shape") =>
          /\ pc = "bs_raised"
          /\ raised = WrongColumns
          /\ NothingComputed
    /\ raised = WrongColumns => Ab.cols # n_vars + 1

\* The shape error raised for a matrix that is too wide and has a row
\* reading 0 = nonzero.
C9_Witness ==
    /\ pc = "bs_raised"
    /\ raised = WrongColumns
    /\ n_vars + 1 < Ab.cols
    /\ \E rr \in RowIdx(Ab) : ZeroEqNonzero(Ab, rr, n_vars)

\* C10 as stated: both error kinds come back as result values, nothing is
\* ever raised, and the kind of the outcome alone tells malformed input from
\* an inconsistent system.
C10_ErrorsAreValues ==
    /\ raised = NoException
    /\ pc = "bs_raised" => (raised.type = "MalformedInputError" <=> Ab.cols # n_vars + 1)

\* C10, amended: both error kinds leave back_substitution as a raised
\* exception of the one class InputError, with no value returned; they differ
\* in the message only (wrong number of columns, or inconsistent system), and
\* a call that returns has raised nothing.
C10_ErrorsAreRaised ==
    /\ pc = "bs_raised" =>
          /\ raised.type = "InputError"
          /\ sol = <<>> /\ sol_free = <<>>
          /\ Ab.cols # n_vars + 1 =>
                raised.msg = "Augmented matrix has wrong number of columns."
          /\ Ab.cols = n_vars + 1 =>
                raised.msg = "System is inconsistent (row of form 0=nonzero). No solution."
    /\ pc # "bs_raised" => raised = NoException

\* An inconsistent system of the right shape, raised.
C10_Witness ==
    /\ pc = "bs_raised"
    /\ Ab.cols = n_vars + 1
    /\ raised.type = "InputError"

\* The augmented matrix [[1, 1, 0 | 2]]: one equation x0 + x1 = 2 in three
\* unknowns.
OneRowThreeUnknowns(X) ==
    /\ X.rows = 1
    /\ X.cols = 4
    /\ X.e[0] = [j \in 0 .. 3 |-> IF j = 2 THEN Rat(0) ELSE IF j = 3 THEN Rat(2) ELSE Rat(1)]

\* C11: when back_substitution returns, the pivot column of each row is the
\* first column among the first n_vars where the row is nonzero (-1 for a row
\* with none); the returned free columns are exactly the columns of
\* 0 .. n_vars-1 that are no row's pivot column, in increasing order; the k-th
\* of them is bound to t_k, and its entry in the returned solution is exactly
\* that symbol. For [[1, 1, 0 | 2]] the free columns are [1, 2] and
\* x0 = 2 - t0.
C11_FreeColumnsAndSymbols ==
    pc = "bs_done" =>
        LET K == Len(sol_free)
            IsPivotOf(rr, j) ==
                /\ j \in 0 .. n_vars - 1
                /\ Ab.e[rr][j] # RZero
                /\ \A q \in 0 .. j - 1 : Ab.e[rr][q] = RZero
        IN  /\ \A rr \in RowIdx(Ab) :
                  \/ IsPivotOf(rr, pivot_col_for_row[rr])
                  \/ /\ pivot_col_for_row[rr] = -1
                     /\ \A j \in 0 .. n_vars - 1 : Ab.e[rr][j] = RZero
            /\ \A k \in 1 .. K - 1 : sol_free[k] < sol_free[k + 1]
            /\ {sol_free[k] : k \in 1 .. K}
                   = {j \in 0 .. n_vars - 1 : \A rr \in RowIdx(Ab) : ~IsPivotOf(rr, j)}
            /\ \A k \in 1 .. K :
                  sol[sol_free[k]] = [c \in 0 .. K |-> IF c = k THEN Rat(1) ELSE Rat(0)]
            /\ OneRowThreeUnknowns(Ab) =>
                  /\ sol_free = <<1, 2>>
                  /\ sol[0] = (0 :> Rat(2) @@ 1 :> Rat(-1) @@ 2 :> Rat(0))

\* The call on [[1, 1, 0 | 2]] has returned.
C11_Witness ==
    /\ pc = "bs_done"
    /\ OneRowThreeUnknowns(Ab)
    /\ Len(sol_free) = 2

\* C12: for an echelon matrix with no row 0 = nonzero in which every column
\* 0 .. n_vars-1 is some row's pivot column, back_substitution returns an
\* empty free list and a solution of constants only (no parameter symbol),
\* which satisfies every row and is the only solution: the coefficient
\* columns have rank n_vars, and no other candidate vector satisfies the rows.
\* For A = [[2, 0], [0, 3]], b = [4, 9] the result on ref([A|b]) is x0 = 2,
\* x1 = 3.
C12_UniqueSolution ==
    /\ (/\ BsEnded
        /\ Ab.cols = n_vars + 1
        /\ IsREF(Ab)
        /\ \A rr \in RowIdx(Ab) : ~ZeroEqNonzero(Ab, rr, n_vars)
        /\ \A j \in 0 .. n_vars - 1 : \E rr \in RowIdx(Ab) : Lead(Ab, rr) = j)
          => /\ pc = "bs_done"
             /\ sol_free = <<>>
             /\ \A j \in 0 .. n_vars - 1 : DOMAIN sol[j] = {0}
             /\ Satisfies(Ab, n_vars, sol, 0)
             /\ RankOn(Ab, 0 .. n_vars - 1) = n_vars
             /\ \A cand \in Candidates(n_vars) :
                   NumSatisfies(Ab, cand) => \A j \in 0 .. n_vars - 1 : sol[j][0] = Rat(cand[j])
    /\ (OnRef /\ BsEnded /\ A = DiagonalSystem)
          => /\ pc = "bs_done"
             /\ sol_free = <<>>
             /\ sol = (0 :> (0 :> Rat(2)) @@ 1 :> (0 :> Rat(3)))

\* The system 2 x0 = 4, 3 x1 = 9 solved through ref.
C12_Witness ==
    /\ OnRef
    /\ pc = "bs_done"
    /\ A = DiagonalSystem
    /\ Ab.rows = 2
    /\ \A j \in 0 .. n_vars - 1 : \E rr \in RowIdx(Ab) : Lead(Ab, rr) = j

\* C13: ref is idempotent on echelon matrices. For an input already in row
\* echelon form the working matrix never differs from the input (the pivot is
\* found in the pivot row itself, so no swap, and no elimination changes a
\* row), the returned matrix equals the input entry for entry, and the
\* returned pivot columns are the columns of the leading entries of its
\* nonzero rows. Consequently ref applied to a matrix ref returned gives it
\* back, with the same pivot columns.
C13_RefIdempotent ==
    /\ (InRef /\ IsREF(A)) =>
          /\ M = A
          /\ pc = "ref_swap" => pivot = pivot_row
          /\ pc = "ref_done" =>
                /\ E = A
                /\ Len(pivots) = NonzeroRows(A)
                /\ \A k \in 1 .. Len(pivots) : pivots[k] = Lead(A, k - 1)
    /\ (pc = "ref_done" /\ earlier.call = "ref" /\ earlier.E = A) =>
          /\ E = earlier.E
          /\ pivots = earlier.pivots

\* ref has returned on the matrix an earlier ref call returned, which that
\* call had to change, and which holds a fraction and two pivots.
C13_Witness ==
    /\ pc = "ref_done"
    /\ earlier.call = "ref"
    /\ earlier.arg # A
    /\ earlier.E = A
    /\ Fractional(A)
    /\ Len(pivots) >= 2

\* ref is inside its loop.
RefRunning == pc \in {"ref_for", "ref_swap", "ref_elim"}

\* An upper bound on the steps ref still has to take: m + 3 for each column
\* still to visit (search, swap, at most m - 1 eliminations, advance), less
\* what the current column has used, and one for the return.
RefStepsLeft ==
    LET perCol == M.rows + 3
        ahead  == (M.cols - col) * perCol
    IN  CASE pc = "ref_for"  -> ahead + 1
          [] pc = "ref_swap" -> ahead
          [] pc = "ref_elim" -> ahead - 1 - r
          [] OTHER           -> 0

\* C14: ref always terminates and has no failure outcome. Every state of a
\* ref run has the column index within 0 .. n and pivot_row within 0 .. m
\* (and at most col); inside the loop every row and column index the next
\* step uses is in range and the pivot value it divides by is nonzero, so the
\* step cannot fail. Every step of the loop strictly lowers a positive bound
\* on the steps left, moves col on by at most one, never lowers pivot_row,
\* and stays in the loop or returns; at pivot_row = m the step is the return.
C14_RefTerminates ==
    [][/\ InRef' =>
             /\ col' \in 0 .. M'.cols
             /\ pivot_row' \in 0 .. M'.rows
             /\ pivot_row' <= col'
             /\ M'.rows = A'.rows /\ M'.cols = A'.cols
       /\ RefRunning' =>
             /\ RefStepsLeft' >= 1
             /\ pc' \in {"ref_swap", "ref_elim"} =>
                   /\ col' \in ColIdx(M')
                   /\ pivot_row' \in RowIdx(M')
                   /\ pivot' \in pivot_row' .. M'.rows - 1
             /\ pc' = "ref_elim" =>
                   /\ r' \in pivot_row' + 1 .. M'.rows
                   /\ pivot_val' # RZero /\ pivot_val' # Zoo
       /\ RefRunning =>
             /\ RefStepsLeft' < RefStepsLeft
             /\ pivot_row' >= pivot_row
             /\ col' \in {col, col + 1}
             /\ (pc = "ref_for" /\ pivot_row >= M.rows) => pc' = "ref_done"
             /\ pc' # "ref_done" => RefRunning']_vars

\* ref has returned by the break: every row holds a pivot and columns are
\* left unvisited.
C14_Witness ==
    /\ pc = "ref_done"
    /\ pivot_row = M.rows
    /\ col < M.cols
    /\ M.rows >= 2

AllZero(X) == \A rr \in RowIdx(X) : ZeroRow(X, rr)

\* C15: on an all-zero m x n matrix ref finds no pivot in any column: it
\* never leaves the column loop for a swap or an elimination, pivot_row stays
\* 0, the pivot list stays empty, the working matrix stays the input, and it
\* returns the input unchanged with an empty pivot list after visiting all n
\* columns.
C15_ZeroMatrix ==
    (InRef /\ AllZero(A)) =>
        /\ pc \in {"ref_for", "ref_done"}
        /\ pivot_row = 0
        /\ pivot_cols = <<>>
        /\ M = A
        /\ pc = "ref_done" =>
              /\ E = A
              /\ pivots = <<>>
              /\ col = A.cols

\* ref has returned on a zero matrix with several rows and columns.
C15_Witness ==
    /\ pc = "ref_done"
    /\ AllZero(A)
    /\ A.rows >= 2
    /\ A.cols >= 2

\* Upper triangular: every entry left of the diagonal is zero (the diagonal
\* itself may hold zeros).
UpperTriangular(X) ==
    \A rr \in RowIdx(X) : \A j \in ColIdx(X) : j < rr => X.e[rr][j] = RZero

\* C16 as stated (the docstring's contract): on every upper-triangular
\* augmented matrix with n_vars + 1 columns, back_substitution raises the
\* inconsistency error whenever the system has no solution, and otherwise
\* returns a vector that satisfies every row.
C16_UpperTriangularSolved ==
    (BsEnded /\ Ab.cols = n_vars + 1 /\ UpperTriangular(Ab)) =>
        /\ ~Solvable(Ab) => (pc = "bs_raised" /\ raised = Inconsistent)
        /\ Solvable(Ab) =>
              /\ pc = "bs_done"
              /\ Satisfies(Ab, n_vars, sol, Len(sol_free))

\* C17: ref and back_substitution are pure. A call given the same argument
\* as the first completed call (the same matrix for ref; the same matrix and
\* n_vars for back_substitution) gives the same outcome, whatever calls ran
\* in between: the same matrix and pivot columns, or the same raised error,
\* or the same solution and free columns.
C17_CallsArePure ==
    /\ (pc = "ref_done" /\ earlier.call = "ref" /\ earlier.arg = A) =>
          /\ E = earlier.E
          /\ pivots = earlier.pivots
    /\ (BsEnded /\ earlier.call = "bs" /\ earlier.arg = Ab /\ earlier.nv = n_vars) =>
          /\ raised = earlier.raised
          /\ sol = earlier.sol
          /\ sol_free = earlier.sol_free

\* A later ref call on the first call's matrix has returned, with two pivots
\* and a matrix that elimination changed.
C17_Witness ==
    /\ pc = "ref_done"
    /\ earlier.call = "ref"
    /\ earlier.arg = A
    /\ E # A
    /\ Len(pivots) >= 2

\* C18: ref never scales a row, and a pivot row is final once chosen. The
\* swap step only exchanges the rows pivot and pivot_row, and the pivot value
\* read is the nonzero entry the chosen row already had in the pivot column;
\* an elimination step changes no row but row r, which lies below the pivot
\* row; the rows of the pivots recorded so far (row k-1 for the k-th pivot)
\* are changed by no later step, and the pivot row still holds pivot_val in
\* the pivot column during elimination; so in the returned matrix the entry
\* (i, pivot_cols[i]) is nonzero and is the value of the row when selected.
C18_PivotRowsAreFinal ==
    [][InRef =>
          /\ \A k \in 1 .. Len(pivot_cols) : M'.e[k - 1] = M.e[k - 1]
          /\ pc = "ref_swap" =>
                /\ M.e[pivot][col] # RZero
                /\ pivot_val' = M.e[pivot][col]
                /\ M'.e[pivot_row] = M.e[pivot]
                /\ M'.e[pivot] = M.e[pivot_row]
                /\ \A rr \in RowIdx(M) \ {pivot, pivot_row} : M'.e[rr] = M.e[rr]
                /\ pivot_cols' = Append(pivot_cols, col)
          /\ pc = "ref_elim" =>
                /\ M.e[pivot_row][col] = pivot_val
                /\ \A rr \in RowIdx(M) : M'.e[rr] # M.e[rr] => (rr = r /\ r > pivot_row)
          /\ pc # "ref_swap" => pivot_cols' = pivot_cols
          /\ pc' = "ref_done" =>
                /\ E' = M /\ pivots' = pivot_cols
                /\ \A k \in 1 .. Len(pivot_cols) : M.e[k - 1][pivot_cols[k]] # RZero]_vars

\* ref has returned a matrix whose second pivot row came into place by a
\* swap and holds a pivot entry other than 1.
C18_Witness ==
    /\ pc = "ref_done"
    /\ Len(pivots) >= 2
    /\ E.e[1] # A.e[1]
    /\ \E k \in 1 .. Len(pivots) : E.e[k - 1][pivots[k]] \notin {Rat(0), Rat(1)}

\* C19: back substitution runs over the rows strictly from the last to the
\* first, one row per step, and returns only after row 0. For an echelon
\* matrix, when row i with pivot column p is resolved, every column j > p it
\* reads is final: a free column (holding its symbol) or the pivot column of
\* a row below i, already resolved; the step writes x[p] only, which no row
\* processed before has read or written (their pivot columns lie right of
\* p), so no entry changes after it has been read and the rows below i stay
\* satisfied.
C19_BackSubstitutionOrder ==
    [][/\ pc = "bs_free" => i' = Ab.rows - 1
       /\ (pc = "bs_sub" /\ pc' = "bs_done") => (i = -1 /\ sol' = x)
       /\ (pc = "bs_sub" /\ i >= 0) =>
             /\ pc' = "bs_sub"
             /\ i' = i - 1
             /\ IsREF(Ab) =>
                   LET p == pivot_col_for_row[i]
                       below == i + 1 .. Ab.rows - 1
                       free == {free_cols[k] : k \in 1 .. Len(free_cols)}
                   IN  /\ \A j \in 0 .. n_vars - 1 : j # p => x'[j] = x[j]
                       /\ p # -1 =>
                             /\ \A j \in p + 1 .. n_vars - 1 :
                                   \/ j \in free /\ x[j] = ExprSym(CHOOSE k \in 0 .. Len(free_cols) - 1 : free_cols[k + 1] = j, Len(free_cols))
                                   \/ \E rr \in below : pivot_col_for_row[rr] = j
                             /\ \A rr \in below :
                                   pivot_col_for_row[rr] = -1 \/ pivot_col_for_row[rr] > p
                       /\ \A rr \in below : RowSatisfied(Ab, rr, n_vars, x', Len(free_cols))]_vars

\* The echelon system x0 + x1 + x2 = 3, 2 x2 = 4 solved: row 0 read the free
\* symbol of column 1 and the value of x2 resolved from row 1.
C19_Witness ==
    /\ pc = "bs_done"
    /\ Ab = FreeBetweenPivots
    /\ sol_free = <<1>>
    /\ sol[2] = (0 :> Rat(2) @@ 1 :> Rat(0))
    /\ sol[0] = (0 :> Rat(1) @@ 1 :> Rat(-1))

\* back_substitution is running or has ended.
InBs == pc \in {"bs_shape", "bs_check", "bs_pivots", "bs_free", "bs_sub", "bs_done", "bs_raised"}

\* The steps of a call from the inconsistency check on: Start ->
\* Checked(consistent) -> PivotsIdentified -> FreeVarsBound -> BackSubstituted
\* -> Done, or Start -> Checked(inconsistent) -> Done with nothing computed.
\* pc = "bs_check" is Start with the column count accepted, "bs_pivots" is
\* Checked(consistent), "bs_free" is PivotsIdentified, "bs_sub" is
\* FreeVarsBound while rows remain (i >= 0) and BackSubstituted after the
\* last (i < 0).
StepsFromCheck ==
    /\ (InBs' /\ ~InBs) => pc' = "bs_shape"
    /\ pc = "bs_check" =>
          \/ /\ pc' = "bs_pivots"
             /\ NothingComputed'
          \/ /\ pc' = "bs_raised"
             /\ raised' = Inconsistent
             /\ NothingComputed'
    /\ pc = "bs_pivots" =>
          /\ pc' = "bs_free"
          /\ DOMAIN pivot_col_for_row' = RowIdx(Ab)
          /\ free_cols' = <<>> /\ x' = <<>> /\ sol' = <<>>
    /\ pc = "bs_free" =>
          /\ pc' = "bs_sub"
          /\ i' = Ab.rows - 1
          /\ DOMAIN x' = 0 .. n_vars - 1
          /\ pivot_col_for_row' = pivot_col_for_row
          /\ sol' = <<>>
    /\ pc = "bs_sub" =>
          \/ /\ i >= 0
             /\ pc' = "bs_sub"
             /\ i' = i - 1
             /\ free_cols' = free_cols /\ pivot_col_for_row' = pivot_col_for_row
             /\ sol' = <<>>
          \/ /\ i < 0
             /\ pc' = "bs_done"
             /\ sol' = x /\ sol_free' = free_cols
             /\ raised' = NoException

\* C20 as stated: every call follows one of exactly two sequences, so Start
\* is always followed by the inconsistency check.
C20_TwoSequences ==
    [][/\ StepsFromCheck
       /\ pc = "bs_shape" => pc' = "bs_check"]_vars

\* C20, amended: a call follows one of three sequences. Start is followed by
\* the inconsistency check only when the matrix has n_vars + 1 columns;
\* otherwise the call goes from Start straight to Done by raising the
\* wrong-columns error, with no check made and nothing computed. From the
\* check on the two stated sequences are followed in order, with no phase
\* skipped or repeated, and nothing is computed on the inconsistent path.
C20_ThreeSequences ==
    [][/\ StepsFromCheck
       /\ pc = "bs_shape" =>
             \/ /\ Ab.cols = n_vars + 1
                /\ pc' = "bs_check"
                /\ NothingComputed'
             \/ /\ Ab.cols # n_vars + 1
                /\ pc' = "bs_raised"
                /\ raised' = WrongColumns
                /\ NothingComputed']_vars

\* A call on a matrix with too few columns has ended from Start without any
\* check.
C20_Witness ==
    /\ pc = "bs_raised"
    /\ raised = WrongColumns
    /\ Ab.cols < n_vars + 1
    /\ NothingComputed

\* C21: in the back-substitution phase, the step for row i with pivot column
\* p leaves x[p] with Ab[i,p] * x[p] + sum over j in p+1 .. n_vars-1 of
\* Ab[i,j] * x[j] equal to Ab[i,n_vars], that is
\* x[p] = (Ab[i,n_vars] - sum) / Ab[i,p], and changes no other entry; the
\* step for a row whose first n_vars entries are all zero assigns nothing;
\* so only pivot-column entries are assigned, and the returned list has
\* exactly the entries 0 .. n_vars-1.
C21_RowFormula ==
    [][/\ (pc = "bs_sub" /\ i >= 0) =>
             LET K == Len(free_cols)
                 nz == {j \in 0 .. n_vars - 1 : Ab.e[i][j] # RZero}
             IN  /\ DOMAIN x' = 0 .. n_vars - 1
                 /\ nz = {} => x' = x
                 /\ nz # {} =>
                       LET p == CHOOSE j \in nz : \A q \in nz : j <= q
                       IN  /\ \A j \in 0 .. n_vars - 1 : j # p => x'[j] = x[j]
                           /\ Ab.e[i][p] # RZero
                           /\ ExprAdd(ExprScale(Ab.e[i][p], x'[p]),
                                      RowSum(Ab, i, p + 1, n_vars, x, K))
                                 = ExprConst(Ab.e[i][n_vars], K)
       /\ pc' = "bs_done" =>
             /\ sol' = x
             /\ DOMAIN sol' = 0 .. n_vars - 1]_vars

\* A call has returned on a matrix with a skipped zero row above a pivot row
\* that has a nonzero term right of its pivot.
C21_Witness ==
    /\ pc = "bs_done"
    /\ Ab.rows >= 2
    /\ pivot_col_for_row[0] = -1
    /\ \E rr \in RowIdx(Ab) :
          /\ pivot_col_for_row[rr] # -1
          /\ \E j \in pivot_col_for_row[rr] + 1 .. n_vars - 1 : Ab.e[rr][j] # RZero

\* C22: the pivot search of ref. In a column iteration the pivot is the
\* lowest-index row at or below pivot_row with a nonzero entry in the column;
\* when there is none the column is skipped with pivot_row, the pivot list
\* and the matrix unchanged. The rows pivot and pivot_row are exchanged only
\* when they differ (otherwise the matrix stays as it is), and the column is
\* recorded. pivot_row advances by exactly 1 per recorded pivot column: the
\* pivot list has pivot_row entries at the start of an iteration and on
\* return, and pivot_row + 1 during the elimination for the pivot just
\* recorded.
C22_PivotSearch ==
    [][/\ (pc = "ref_for" /\ col < M.cols /\ pivot_row < M.rows) =>
             LET hits == {rr \in pivot_row .. M.rows - 1 : M.e[rr][col] # RZero}
             IN  /\ M' = M /\ pivot_row' = pivot_row /\ pivot_cols' = pivot_cols
                 /\ hits = {} => (pc' = "ref_for" /\ col' = col + 1)
                 /\ hits # {} =>
                       /\ pc' = "ref_swap"
                       /\ col' = col
                       /\ pivot' \in hits
                       /\ \A q \in hits : pivot' <= q
       /\ pc = "ref_swap" =>
             /\ pivot = pivot_row => M' = M
             /\ pivot # pivot_row =>
                   /\ M'.e[pivot_row] = M.e[pivot]
                   /\ M'.e[pivot] = M.e[pivot_row]
                   /\ \A rr \in RowIdx(M) \ {pivot, pivot_row} : M'.e[rr] = M.e[rr]
             /\ pivot_cols' = Append(pivot_cols, col)
             /\ pivot_row' = pivot_row
       /\ pc = "ref_elim" =>
             /\ pivot_cols' = pivot_cols
             /\ pivot_row' = IF pc' = "ref_for" THEN pivot_row + 1 ELSE pivot_row
       /\ pc' \in {"ref_for", "ref_swap", "ref_done"} => Len(pivot_cols') = pivot_row'
       /\ pc' = "ref_elim" => Len(pivot_cols') = pivot_row' + 1
       /\ pc' = "ref_done" => Len(pivots') = pivot_row']_vars

\* A pivot has just been found below pivot_row, in a column reached after
\* a skipped column, with a further nonzero row below it.
C22_Witness ==
    /\ pc = "ref_swap"
    /\ pivot > pivot_row
    /\ col > Len(pivot_cols)
    /\ \E rr \in pivot + 1 .. M.rows - 1 : M.e[rr][col] # RZero

\* No entry of X is the result of a division by zero.
NoZoo(X) == \A rr \in RowIdx(X) : \A j \in ColIdx(X) : X.e[rr][j][2] # 0

\* C23: no division by zero. In ref the row selected as pivot source has a
\* nonzero entry in the column, and during elimination pivot_val is that
\* nonzero entry of the pivot row, so every factor M[r,col] / pivot_val has a
\* nonzero divisor; in back_substitution the divisor Ab[i,p] of a row with
\* pivot column p is nonzero; and no entry of the working matrix, of the
\* returned matrix or of the solution is the value of a division by zero.
C23_NoDivisionByZero ==
    /\ pc = "ref_swap" => (pivot \in RowIdx(M) /\ M.e[pivot][col] # RZero)
    /\ pc = "ref_elim" => (pivot_val # RZero /\ pivot_val[2] # 0 /\ pivot_val = M.e[pivot_row][col])
    /\ InRef => NoZoo(M)
    /\ pc = "ref_done" => NoZoo(E)
    /\ (pc = "bs_sub" /\ i >= 0 /\ pivot_col_for_row[i] # -1) =>
          (Ab.e[i][pivot_col_for_row[i]] # RZero /\ Ab.e[i][pivot_col_for_row[i]][2] # 0)
    /\ pc \in {"bs_sub", "bs_done"} =>
          \A j \in DOMAIN x : \A k \in DOMAIN x[j] : x[j][k][2] # 0

\* Both divisions have produced a fraction: in the matrix ref returned and in
\* the solution computed from it, whose last step divided by a pivot entry
\* other than 1.
C23_Witness ==
    /\ pc = "bs_done"
    /\ OnRef
    /\ Fractional(E)
    /\ Ab.e[0][pivot_col_for_row[0]] \notin {Rat(0), Rat(1)}
    /\ sol[pivot_col_for_row[0]][0][2] # 1

\* C24: the loop invariant of ref. At the start of every column iteration
\* (and at loop exit) the number of recorded pivot columns equals pivot_row,
\* every recorded pivot column is < col, and every entry M[r, c] with
\* r >= pivot_row and c < col is zero; the zeros left of the current column
\* in the rows from pivot_row on also hold through the swap and every
\* elimination step of the iteration, so a later column never brings back a
\* nonzero entry left of, or below, an earlier pivot.
C24_LoopInvariant ==
    /\ pc = "ref_for" =>
          /\ Len(pivot_cols) = pivot_row
          /\ \A k \in 1 .. Len(pivot_cols) : pivot_cols[k] < col
    /\ InRef =>
          /\ \A rr \in pivot_row .. M.rows - 1 : \A c \in 0 .. col - 1 : M.e[rr][c] = RZero
          /\ \A k \in 1 .. Len(pivot_cols) : \A rr \in k .. M.rows - 1 :
                pivot_cols[k] < col => M.e[rr][pivot_cols[k]] = RZero

\* The start of the third column's iteration, one pivot recorded, the matrix
\* changed by elimination, a nonzero entry still ahead in the rows left.
C24_Witness ==
    /\ pc = "ref_for"
    /\ col = 2
    /\ col < M.cols
    /\ pivot_row = 1
    /\ M # A
    /\ M.e[1][2] # RZero

\* C25: ref and back_substitution agree on the pivots. When
\* back_substitution runs on ref([A|b]) with n_vars = n - 1, the pivot
\* columns it recomputes by the first-nonzero scan are the pivot columns ref
\* returned that are < n_vars, row by row (and the rows beyond ref's pivots
\* get none); and ref reports column n_vars, the right-hand side, as a pivot
\* column exactly when back_substitution raises the inconsistency error.
C25_PivotsAgree ==
    OnRef =>
        LET inA == {k \in 1 .. Len(pivots) : pivots[k] < n_vars}
        IN  /\ pc \in {"bs_free", "bs_sub", "bs_done"} =>
                  /\ pivot_set = {pivots[k] : k \in inA}
                  /\ \A rr \in RowIdx(Ab) :
                        pivot_col_for_row[rr] = IF rr + 1 \in inA THEN pivots[rr + 1] ELSE -1
            /\ BsEnded =>
                  ((\E k \in 1 .. Len(pivots) : pivots[k] = n_vars)
                      <=> (pc = "bs_raised" /\ raised = Inconsistent))

\* ref made the right-hand-side column a pivot column by elimination (no row
\* of [A|b] itself reads 0 = nonzero), and back_substitution raised.
C25_Witness ==
    /\ OnRef
    /\ pc = "bs_raised"
    /\ Len(pivots) >= 2
    /\ pivots[Len(pivots)] = n_vars
    /\ \A rr \in RowIdx(A) : ~ZeroEqNonzero(A, rr, n_vars)

\* C26: in every returned result the pivot columns and the free columns
\* partition 0 .. n_vars-1: the free list has no repetition, shares no column
\* with the pivot columns, and together they are all the variables; for an
\* echelon matrix the number of free columns is n_vars minus the number of
\* rows with a nonzero coefficient part, which is n_vars minus the rank of
\* the coefficient columns.
C26_PivotFreePartition ==
    pc = "bs_done" =>
        LET free   == {sol_free[k] : k \in 1 .. Len(sol_free)}
            pivs   == {j \in 0 .. n_vars - 1 : \E rr \in RowIdx(Ab) :
                          /\ Ab.e[rr][j] # RZero
                          /\ \A q \in 0 .. j - 1 : Ab.e[rr][q] = RZero}
            nzRows == {rr \in RowIdx(Ab) : \E j \in 0 .. n_vars - 1 : Ab.e[rr][j] # RZero}
        IN  /\ pivot_set = pivs
            /\ Cardinality(free) = Len(sol_free)
            /\ free \cap pivs = {}
            /\ free \cup pivs = 0 .. n_vars - 1
            /\ IsREF(Ab) =>
                  /\ Len(sol_free) = n_vars - Cardinality(nzRows)
                  /\ Len(sol_free) = n_vars - RankOn(Ab, 0 .. n_vars - 1)

\* An echelon system of two rows, the second one zero, returned with one
\* pivot column and one free column.
C26_Witness ==
    /\ pc = "bs_done"
    /\ IsREF(Ab)
    /\ Ab.rows = 2
    /\ n_vars = 2
    /\ Cardinality(pivot_set) = 1
    /\ Len(sol_free) = 1

\* C27: ref and back_substitution leave their arguments unchanged. No step
\* changes the caller's matrix A: ref's swaps and eliminations write to M,
\* a copy; the matrix ref returns is that other object and has the
\* dimensions of A. back_substitution is bound to the caller's matrix (A, or
\* the E that ref returned) and no step of it, returning or raising either
\* error, changes Ab or the caller's A and E.
C27_ArgumentsUnchanged ==
    [][/\ A' = A
       /\ InRef' =>
             /\ M'.rows = A.rows /\ M'.cols = A.cols
       /\ pc' = "ref_done" =>
             /\ E'.rows = A.rows /\ E'.cols = A.cols
       /\ (InBs' /\ ~InBs) => Ab' = (IF pc = "ref_done" THEN E ELSE A)
       /\ InBs =>
             /\ Ab' = Ab
             /\ n_vars' = n_vars
             /\ E' = E]_vars

\* back_substitution has raised on the matrix ref returned, a matrix of three
\* rows that the swaps and eliminations of ref made differ from A.
C27_Witness ==
    /\ pc = "bs_raised"
    /\ OnRef
    /\ Ab = E
    /\ A.rows = 3
    /\ E.e[0] # A.e[0]
    /\ E.e[2] # A.e[2]

\* The line without the blanks around it, by positions: what lies between
\* the first and the last character that is no blank.
Trimmed(s) ==
    LET nb == {k \in 1 .. Len(s) : s[k] # " "}
    IN  IF nb = {} THEN <<>>
        ELSE SubSeq(s, CHOOSE k \in nb : \A q \in nb : k <= q,
                       CHOOSE k \in nb : \A q \in nb : k >= q)

\* The line is the word, in small or capital letters, with blanks around.
Spells(s, word) ==
    LET caps == [c \in {"q", "u", "i", "t", "e", "x", "n", "o"} |->
                    CASE c = "q" -> "Q" [] c = "u" -> "U" [] c = "i" -> "I"
                      [] c = "t" -> "T" [] c = "e" -> "E" [] c = "x" -> "X"
                      [] c = "n" -> "N" [] c = "o" -> "O"]
    IN  /\ Len(Trimmed(s)) = Len(word)
        /\ \A k \in 1 .. Len(word) :
              Trimmed(s)[k] = word[k] \/ Trimmed(s)[k] = caps[word[k]]

\* C28: in main's loop of the back-substitution tool an inconsistent system
\* is an ordinary outcome. When back_substitution has raised, the matrix
\* entered has a row 0 ... 0 | nonzero, and the next step is main's
\* except InputError: the message is shown, no solution is or has been
\* printed since the last row was read, and main waits at "Press Enter to
\* continue...";
\* whatever is typed there, the next step is the first prompt of a fresh
\* round. A line that is no row is refused inside read_augmented_matrix and
\* ends nothing. main ends only from "Run again?" on q, quit, no or n, or
\* from an integer prompt on q, quit or exit, in any case and with blanks
\* around.
C28_InconsistentIsNotFatal ==
    [][/\ pc = "bs_raised" =>
             /\ raised = Inconsistent
             /\ \E rr \in RowIdx(A) : ZeroEqNonzero(A, rr, main_n_vars)
             /\ pc' = "main_input_error"
             /\ ErrorShown \in printed'
             /\ SolutionPrinted \notin printed'
       /\ pc = "main_input_error" =>
             /\ SolutionPrinted \notin printed
             /\ pc' = "main_n"
             /\ printed' = {}
             /\ read_rows' = <<>>
       /\ pc = "main_row" => pc' \in {"main_row", "main_call"}
       /\ pc' = "main_ended" =>
             \/ /\ pc = "main_again"
                /\ \E w \in {<<"q">>, <<"q", "u", "i", "t">>, <<"n", "o">>, <<"n">>} :
                      Spells(entered', w)
             \/ /\ pc \in {"main_n", "main_m"}
                /\ \E w \in {<<"q">>, <<"q", "u", "i", "t">>, <<"e", "x", "i", "t">>} :
                      Spells(entered', w)]_vars

\* main has caught the InputError of a system of two rows whose second row
\* is 0 0 | 1/2, has shown the matrix and the message, and waits for Enter.
C28_Witness ==
    /\ pc = "main_input_error"
    /\ raised = Inconsistent
    /\ main_n_vars = 2
    /\ main_m = 2
    /\ ZeroEqNonzero(A, 1, 2)
    /\ A.e[1][2] = <<1, 2>>
    /\ ~ZeroEqNonzero(A, 0, 2)
    /\ printed = {YouEntered, ErrorShown}

\* The numbers written on a line, read off by positions: a number starts
\* where a character that is neither blank nor comma stands first or after a
\* blank or comma, and runs to the last such character in a row.
Separator(c) == c \in {" ", ","}

NumberStarts(s) ==
    {k \in 1 .. Len(s) : ~Separator(s[k]) /\ (k = 1 \/ Separator(s[k - 1]))}

NumberFrom(s, k) ==
    LET stops == {q \in k .. Len(s) : q = Len(s) \/ Separator(s[q + 1])}
    IN  SubSeq(s, k, CHOOSE q \in stops : \A q2 \in stops : q <= q2)

PlainDigits(s) == s # <<>> /\ \A k \in 1 .. Len(s) : s[k] \in {"0", "1", "2", "3", "9"}

WholeNumber(s) == PlainDigits(s) \/ (s # <<>> /\ s[1] = "-" /\ PlainDigits(Tail(s)))

WholeValue(s) == IF s[1] = "-" THEN 0 - DecimalNumber(Tail(s)) ELSE DecimalNumber(s)

\* The token denotes the rational v: a whole number, or one whole number over
\* another that is not zero.
Denotes(t, v) ==
    \/ WholeNumber(t) /\ v = <<WholeValue(t), 1>>
    \/ \E k \in 2 .. Len(t) - 1 :
          /\ t[k] = "/"
          /\ WholeNumber(SubSeq(t, 1, k - 1))
          /\ WholeNumber(SubSeq(t, k + 1, Len(t)))
          /\ WholeValue(SubSeq(t, k + 1, Len(t))) # 0
          /\ v[2] > 0
          /\ v[1] * WholeValue(SubSeq(t, k + 1, Len(t)))
                = WholeValue(SubSeq(t, 1, k - 1)) * v[2]

IsNumber(t) ==
    \/ WholeNumber(t)
    \/ \E k \in 2 .. Len(t) - 1 :
          /\ t[k] = "/"
          /\ WholeNumber(SubSeq(t, 1, k - 1))
          /\ WholeNumber(SubSeq(t, k + 1, Len(t)))
          /\ WholeValue(SubSeq(t, k + 1, Len(t))) # 0

\* The k-th number start of the line, counted from 1.
KthStart(s, k) == CHOOSE p \in NumberStarts(s) : Cardinality({q \in NumberStarts(s) : q <= p}) = k

\* C29: read_augmented_matrix returns a matrix of exactly m rows of exactly
\* n_vars + 1 entries, and read_matrix of REF.py, the same loop around the
\* same parse_row, one of m rows of n. Every row collected has n_vars + 1
\* entries and no more than m rows are collected; the matrix handed to
\* back_substitution is the m rows collected. A line typed at a row prompt is
\* accepted exactly when it holds n_vars + 1 things between blanks and commas
\* and each of them is a number: then the numbers it denotes are appended as
\* one row. Any other line appends nothing, leaves the row index (the number
\* of rows collected) as it is, and the same row is asked for again.
C29_RowsAsAsked ==
    [][/\ \A k \in 1 .. Len(read_rows') : Len(read_rows'[k]) = main_n_vars' + 1
       /\ Len(read_rows') <= main_m'
       /\ pc' \in {"main_call", "bs_shape", "bs_check", "bs_done", "bs_raised"} =>
             /\ A'.rows = main_m'
             /\ A'.cols = main_n_vars' + 1
             /\ Len(read_rows') = main_m'
             /\ \A rr \in 0 .. main_m' - 1 : \A j \in 0 .. main_n_vars' :
                   A'.e[rr][j] = read_rows'[rr + 1][j + 1]
       /\ pc = "main_row" =>
             LET total == main_n_vars + 1
                 line  == entered'
                 asked == /\ Cardinality(NumberStarts(line)) = total
                          /\ \A p \in NumberStarts(line) : IsNumber(NumberFrom(line, p))
             IN  IF asked
                 THEN /\ Len(read_rows') = Len(read_rows) + 1
                      /\ SubSeq(read_rows', 1, Len(read_rows)) = read_rows
                      /\ \A k \in 1 .. total :
                            Denotes(NumberFrom(line, KthStart(line, k)),
                                    read_rows'[Len(read_rows')][k])
                      /\ pc' = (IF Len(read_rows') = main_m THEN "main_call" ELSE "main_row")
                 ELSE /\ read_rows' = read_rows
                      /\ pc' = "main_row"
                      /\ A' = A
                      /\ RowRejected \in printed']_vars

\* The first of two rows of three numbers is in, typed with a fraction; a
\* line of four numbers with commas has just been refused and the second row
\* is asked for again.
C29_Witness ==
    /\ pc = "main_row"
    /\ main_m = 2
    /\ main_n_vars = 2
    /\ read_rows = <<(<<(<<1, 2>>), (<<0, 1>>), (<<1, 1>>)>>)>>
    /\ Cardinality(NumberStarts(entered)) = 4
    /\ \E k \in 1 .. Len(entered) : entered[k] = ","
    /\ printed = {RowRejected}

\* C30: read_int only ever returns an integer v with min_value <= v <=
\* max_value. At either integer prompt of main (1 .. 20 for n, 1 .. 30 for
\* m): a value is bound only by a line of decimal digits, to the number they
\* write, and that number is in range; a line that, blanks aside, is empty
\* or holds a character that is no digit, or that writes a number out of
\* range, binds nothing and the same prompt stands again; q, quit or exit in
\* any case bind nothing and raise KeyboardInterrupt, on which main says Bye
\* and ends. (Digit is what str.isdigit() takes for one. A line of such
\* characters that int() refuses, a superscript two, binds nothing either:
\* it leaves read_int with ValueError.)
C30_ReadIntInRange ==
    [][/\ pc' \in {"main_m", "main_row", "main_call"} => main_n_vars' \in 1 .. 20
       /\ pc' \in {"main_row", "main_call"} => main_m' \in 1 .. 30
       /\ pc \in {"main_n", "main_m"} =>
             LET s        == Trimmed(entered')
                 at_most  == IF pc = "main_n" THEN 20 ELSE 30
                 returned == pc' = (IF pc = "main_n" THEN "main_m" ELSE "main_row")
                 v        == IF pc = "main_n" THEN main_n_vars' ELSE main_m'
                 quit     == \E w \in {<<"q">>, <<"q", "u", "i", "t">>, <<"e", "x", "i", "t">>} :
                                Spells(entered', w)
                 no_digit == s = <<>> \/ \E k \in 1 .. Len(s) :
                                s[k] \notin {"0", "1", "2", "3", "9", "ar3", "sup2"}
                 number   == s # <<>> /\ \A k \in 1 .. Len(s) :
                                s[k] \in {"0", "1", "2", "3", "9", "ar3"}
             IN  /\ returned =>
                       /\ number
                       /\ v = DecimalNumber(s)
                       /\ 1 <= v /\ v <= at_most
                 /\ ~returned => main_n_vars' = main_n_vars /\ main_m' = main_m
                 /\ (~quit /\ (no_digit \/ (number /\ ~(DecimalNumber(s) \in 1 .. at_most)))) =>
                       /\ pc' = pc
                       /\ printed' \in {{PositiveInteger}, {BetweenMinAndMax}}
                 /\ quit =>
                       /\ pc' = "main_ended"
                       /\ printed' = {Bye}]_vars

\* n was returned as 2, and at the prompt for m the number 99 has just been
\* refused: the prompt stands again and m is not bound.
C30_Witness ==
    /\ pc = "main_m"
    /\ main_n_vars = 2
    /\ main_m = 0
    /\ entered = <<"9", "9">>
    /\ printed = {BetweenMinAndMax}

=============================================================================
